---- MODULE Spec2Model ----
(***************************************************************************)
(* Verification model of site_analyzer: the orchestrator                   *)
(* (core/analyzer.py), the result aggregator (models/scan_result.py) and   *)
(* the three enumeration strategies (enumeration/*.py).                    *)
(*                                                                         *)
(* Encoding conventions                                                    *)
(*   - Python lists of strings are sequences, Python sets are sets, dicts  *)
(*     are functions over strings (records).                               *)
(*   - A value returned by response.json() is a record with a field        *)
(*     "json" that says whether the body was a JSON object or an array.    *)
(*   - datetime.now() is the logical clock `now`; None is NoTime.          *)
(*   - An error message f"<prefix>: {e}" is modelled by its prefix.        *)
(***************************************************************************)
EXTENDS Integers, Sequences, FiniteSets, TLC

VARIABLES
    \* ---- SiteAnalyzer and one call of analyze (core/analyzer.py) ----
    enabled_enumerators,  \* config.enabled_enumerators
    security_trails_api_key, \* config.security_trails_api_key is set
    created,              \* what EnumeratorFactory.create_enumerators did
    enumerators,          \* self.enumerators: sequence of enumerator kinds
    storage,              \* self.storage is set
    pc,                   \* position of the analyze call
    idx,                  \* position of the for loop over self.enumerators
    results,              \* the ScanResults of the call
    now,                  \* the clock read by datetime.now()
    pending,              \* exception caught by the outer except clause
    raised,               \* exception that left analyze
    invoked,              \* history: the enumerate calls made, in order
    saves,                \* history: the records passed to storage.save
    end_time_writes,      \* history: number of assignments to results.end_time
    faults,               \* number of faults injected into this scan so far
    \* ---- one call of enumerate (enumeration/*.py) ----
    enumKind,             \* which strategy is called
    enumEnv,              \* what its sub-operations do for the target
    enumResult,           \* what the call returned or raised
    \* ---- one ScanResults and the calls made on it (models/scan_result.py) ----
    mergeRecord,          \* the ScanResults
    mergeExc,             \* what the last merge_results call raised
    mergeCalls,           \* merge_results calls since the last outcome was added
    \* ---- one call of get_security_score (analyzers/dom_patterns.py) ----
    scoreMatches,         \* the list of DOMPatternMatch passed in
    scoreResult,          \* what the call returned or raised
    \* ---- one call of analyze_content (analyzers/dom_patterns.py) ----
    domPatterns,          \* self.patterns, the loaded pattern definitions
    domResult,            \* what the call returned or raised
    \* ---- one call of analyze_js_results (analyzers/dom_patterns.py) ----
    jsPatterns,           \* self.patterns of the analyzer
    jsResults,            \* the mapping js_results, in insertion order
    jsOut,                \* what the call returned or raised
    \* ---- one call of detect_frameworks (plugins/factory.py) ----
    detPlugins,           \* self.plugins of the engine
    detInput,             \* what content and js_results show
    detOut,               \* what the call returned or raised
    \* ---- a storage backend and its callers (storage/*.py) ----
    stBackend,            \* which backend: file, sql or mongodb
    stStore,              \* what is stored under each scan_id
    stSaved,              \* history: the record of the last save per scan_id, NoRecord once deleted
    stOut,                \* the last call and what it returned
    \* ---- concurrent analyze calls on one SiteAnalyzer (interfaces/grpc_server.py) ----
    ccTarget,             \* the target of each request
    ccPc,                 \* where each thread is in analyze
    ccIdx,                \* the position of each thread in self.enumerators
    ccResults,            \* the ScanResults objects, by the cell that refers to them
    ccOwn,                \* history: the outcomes the invocations of each call returned
    ccStore,              \* the records in the storage backend
    ccReturned,           \* what analyze returned to each request
    ccOverlap,            \* history: the calls that ran while another call ran
    \* ---- one session of PromptNavigator (navigation/prompt_navigator.py) ----
    navPrompt,            \* the kind of prompt
    navEnv,               \* what the browser and the page do
    navPc,                \* where navigate_with_prompt is
    step_counter,         \* self.step_counter
    navSteps,             \* the local list steps
    navResult             \* what navigate_with_prompt returned

configVars == <<enabled_enumerators, security_trails_api_key>>
analyzeVars == <<configVars, created, enumerators, storage, pc, idx, results,
                 now, pending, raised, invoked, saves, end_time_writes,
                 faults>>
enumVars == <<enumKind, enumEnv, enumResult>>
mergeVars == <<mergeRecord, mergeExc, mergeCalls>>
scoreVars == <<scoreMatches, scoreResult>>
domVars == <<domPatterns, domResult>>
jsVars == <<jsPatterns, jsResults, jsOut>>
detVars == <<detPlugins, detInput, detOut>>
stVars == <<stBackend, stStore, stSaved, stOut>>
ccVars == <<ccTarget, ccPc, ccIdx, ccResults, ccOwn, ccStore, ccReturned, ccOverlap>>
navVars == <<navPrompt, navEnv, navPc, step_counter, navSteps, navResult>>
vars == <<analyzeVars,
         enumVars,
         mergeVars,
         scoreVars,
         domVars,
         jsVars,
         detVars,
         stVars,
         ccVars,
         navVars>>

\* what a specification of one part of the program holds fixed
notAnalyzeVars == <<enumVars, mergeVars, scoreVars, domVars,
                    jsVars, detVars, stVars, ccVars,
                    navVars>>
notEnumVars == <<analyzeVars, mergeVars, scoreVars, domVars,
                 jsVars, detVars, stVars, ccVars,
                 navVars>>
notMergeVars == <<analyzeVars, enumVars, scoreVars, domVars,
                  jsVars, detVars, stVars, ccVars,
                  navVars>>
notScoreVars == <<analyzeVars, enumVars, mergeVars, domVars,
                  jsVars, detVars, stVars, ccVars,
                  navVars>>
notDomVars == <<analyzeVars, enumVars, mergeVars, scoreVars,
                jsVars, detVars, stVars, ccVars,
                navVars>>
notJsVars == <<analyzeVars, enumVars, mergeVars, scoreVars,
               domVars, detVars, stVars, ccVars,
               navVars>>
notDetVars == <<analyzeVars, enumVars, mergeVars, scoreVars,
                domVars, jsVars, stVars, ccVars,
                navVars>>
notStVars == <<analyzeVars, enumVars, mergeVars, scoreVars,
               domVars, jsVars, detVars, ccVars,
               navVars>>
notCcVars == <<analyzeVars, enumVars, mergeVars, scoreVars,
               domVars, jsVars, detVars, stVars,
               navVars>>
notNavVars == <<analyzeVars, enumVars, mergeVars, scoreVars,
                domVars, jsVars, detVars, stVars,
                ccVars>>

----------------------------------------------------------------------------
(* Bounds *)

\* longest enumerator list registered on the analyzer
MaxEnumerators == 2
\* most faults (failed calls, malformed response bodies) the environment
\* injects into the enumerators of one scan
MaxFaults == 2
\* most outcomes added to one ScanResults
MaxOutcomes == 3
\* most merge_results calls in a row on one ScanResults
MaxMergeCalls == 2
\* longest list of DOMPatternMatch that is scored
MaxMatches == 2
\* largest count of a DOMPatternMatch
MaxCount == 4
\* longest list of pattern definitions that is loaded
MaxPatterns == 2
\* most entries of a script-result mapping
MaxScripts == 2
\* worker threads inside analyze at the same time
MaxCalls == 2
\* most credential fields that a handler finds and fills
MaxFields == 2

----------------------------------------------------------------------------
(* Small universes of inputs *)

Target == "example.com"

NoTime == 0

StrategyNames == {"web_scanner", "dns_enumeration", "security_trails"}
\* "custom" is a BaseEnumerator subclass outside the repository
\* (EnumeratorFactory.register_enumerator admits them)
Kinds == StrategyNames \cup {"custom"}

SetToList(S) ==
    \* list(a_set): some enumeration of the set without repetition
    CHOOSE s \in [1..Cardinality(S) -> S] : \A x \in S : \E i \in DOMAIN s : s[i] = x

Range(s) == {s[i] : i \in DOMAIN s}

\* what the extractors find in the page that get_url_content returns
Pages == {"blank", "rich"}
Extracted(page) ==
    IF page = "rich"
    THEN [emails |-> {"a@b.com"}, urls |-> {"http://example.com/x"},
          endpoints |-> {"/api/v1"}, keywords |-> {"token"},
          sourcemap_matches |-> {"app.js.map"}, js_paths |-> {"/app.js"}]
    ELSE [emails |-> {}, urls |-> {}, endpoints |-> {}, keywords |-> {},
          sourcemap_matches |-> {}, js_paths |-> {}]

JoinDot(sub, target) ==
    \* f"{sub}.{target}"
    CASE sub = "www" /\ target = "example.com" -> "www.example.com"
      [] sub = "api" /\ target = "example.com" -> "api.example.com"
      [] sub = "www" /\ target = "example.org" -> "www.example.org"
      [] sub = "api" /\ target = "example.org" -> "api.example.org"
      [] OTHER -> "?"

----------------------------------------------------------------------------
(* Python call outcomes and JSON bodies *)

Return(v) == [outcome |-> "return", value |-> v]
Raise(cls) == [outcome |-> "raise", value |-> cls]

JsonObject(d) == [json |-> "object", dict |-> d]
\* a body that is a JSON array of objects: `in` works on it, dict.update
\* does not
JsonArray == [json |-> "array"]
EmptyDict == JsonObject(<<>>)

HasKey(j, k) ==
    \* k in j
    j.json = "object" /\ k \in DOMAIN j.dict

----------------------------------------------------------------------------
(* enumeration/base.py *)

_create_result(name, target, data, errors, ts) ==
    [enumerator_name |-> name, target |-> target, timestamp |-> ts,
     data |-> data, errors |-> errors]

----------------------------------------------------------------------------
(* enumeration/web_scanner.py *)

\* the calls of _scan_website_with_injection that can raise, in order
WebSteps == <<"load_scripts", "launch", "get_url_content", "extract",
              "dom_patterns", "close">>

WebEnvs ==
    \* fail_at: the first call that raises ("none": no call raises);
    \* page: what get_url_content returns when it is reached
    {e \in [fail_at : {"none"} \cup Range(WebSteps), page : Pages] :
        e.fail_at \in {"load_scripts", "launch", "get_url_content"}
            => e.page = "blank"}

\* the payload keys that merge_results reads; storage_data, frameworks,
\* dom_patterns and security_score are carried along and never merged
WebDefaults ==
    [emails |-> <<>>, urls |-> <<>>, endpoints |-> <<>>, keywords |-> <<>>,
     sourcemap_matches |-> <<>>, js_paths |-> <<>>]

_scan_website_with_injection(env) ==
    \* the local `result` dict is returned only when no call raised; the
    \* except clause re-raises and the finally clause closes the browser
    IF env.fail_at = "none"
    THEN LET x == Extracted(env.page)
         IN  Return([emails |-> SetToList(x.emails),
                     urls |-> SetToList(x.urls),
                     endpoints |-> SetToList(x.endpoints),
                     keywords |-> SetToList(x.keywords),
                     sourcemap_matches |-> SetToList(x.sourcemap_matches),
                     js_paths |-> SetToList(x.js_paths)])
    ELSE Raise("Exception")

WebScannerEnumerate(target, env, ts) ==
    LET r == _scan_website_with_injection(env)
        data == IF r.outcome = "return" THEN r.value ELSE WebDefaults
        errors == IF r.outcome = "return" THEN <<>>
                  ELSE <<"Web scanning with JS injection failed">>
    IN  Return(_create_result("web_scanner", target, data, errors, ts))

----------------------------------------------------------------------------
(* enumeration/dns_enumeration.py *)

DnsEnvs ==
    \* resolve: socket.gethostbyname_ex; reverse: socket.gethostbyaddr (called
    \* only when an address was resolved); dumpster: the DNSDumpster query
    {[resolve |-> "fail", reverse |-> "skipped", dumpster |-> d] :
        d \in {"fail", "ok"}}
    \cup {[resolve |-> "ok", reverse |-> r, dumpster |-> d] :
        r \in {"fail", "ok"}, d \in {"fail", "ok"}}

_get_basic_dns_records(env) ==
    \* both lookups have their own except clause: the function never raises
    LET a == IF env.resolve = "ok" THEN <<"1.2.3.4">> ELSE <<>>
        hostname == IF a # <<>> /\ env.reverse = "ok" THEN "host.example.com"
                    ELSE "None"
    IN  Return([a |-> a, hostname |-> hostname])

_get_dns_dumpster(target, env) ==
    IF env.dumpster = "ok"
    THEN Return([subdomains |-> <<JoinDot("www", target)>>,
                 dns_servers |-> <<>>, mx_records |-> <<>>,
                 txt_records |-> <<>>])
    ELSE Raise("Exception")

DNSEnumerate(target, env, ts) ==
    LET basic == _get_basic_dns_records(env)
        dump == _get_dns_dumpster(target, env)
        dns_records == IF basic.outcome = "return" THEN basic.value ELSE <<>>
        errors1 == IF basic.outcome = "return" THEN <<>>
                   ELSE <<"Failed to get basic DNS records">>
        dumpster_data == IF dump.outcome = "return" THEN dump.value ELSE <<>>
        subdomains == IF dump.outcome = "return"
                         /\ "subdomains" \in DOMAIN dump.value
                      THEN dump.value.subdomains ELSE <<>>
        errors2 == IF dump.outcome = "return" THEN errors1
                   ELSE Append(errors1, "Failed to get DNS Dumpster data")
    IN  Return(_create_result("dns_enumeration", target,
                   [subdomains |-> subdomains, dns_records |-> dns_records,
                    dns_dumpster_data |-> dumpster_data],
                   errors2, ts))

----------------------------------------------------------------------------
(* enumeration/security_trails.py *)

HistoryTypes == <<"a", "aaaa", "mx", "ns", "txt">>

\* the sets of record types whose history request fails that are tried
HistoryFailures == {{}, {"mx"}, {"a", "aaaa", "mx", "ns", "txt"}}

DomainBody(ips) ==
    JsonObject([hostname |-> Target,
                current_dns |-> [a |-> [i \in DOMAIN ips |-> [ip |-> ips[i]]],
                                 mx |-> <<>>]])

SecurityTrailsEnvs ==
    \* domain, subdomain, whois: "fail" (the request raises), "array" (the
    \* body is a JSON array), "object"; history: the record types whose
    \* request raises; vhosts, domains: the two requests made per address
    {e \in [domain : {"fail", "array", "object"},
            subdomain : {"fail", "object"},
            whois : {"fail", "array", "object"},
            history : HistoryFailures,
            vhosts : {"fail", "object", "skipped"},
            domains : {"fail", "object", "skipped"}] :
        \* without an address the per-address loop has no iteration
        /\ (e.domain # "object") <=> (e.vhosts = "skipped")
        \* get_domains is not reached unless get_vhosts returned
        /\ (e.vhosts # "object") <=> (e.domains = "skipped")}

HistoryError(rt) ==
    \* f"Failed to get {record_type} history: {e}"
    CASE rt = "a" -> "Failed to get a history"
      [] rt = "aaaa" -> "Failed to get aaaa history"
      [] rt = "mx" -> "Failed to get mx history"
      [] rt = "ns" -> "Failed to get ns history"
      [] OTHER -> "Failed to get txt history"

RECURSIVE HistoryLoop(_, _, _)
HistoryLoop(i, env, acc) ==
    \* for record_type in [...]: one inner try/except per record type
    IF i > Len(HistoryTypes) THEN acc
    ELSE LET rt == HistoryTypes[i]
         IN  IF rt \in env.history
             THEN HistoryLoop(i + 1, env,
                      [acc EXCEPT !.errors = Append(@, HistoryError(rt))])
             ELSE HistoryLoop(i + 1, env,
                      [acc EXCEPT !.historical_dns =
                          [k \in DOMAIN @ \cup {rt} |->
                              IF k = rt THEN JsonObject([records |-> <<>>])
                              ELSE @[k]]])

SecurityTrailsEnumerate(target, env, ts) ==
    LET \* try 1: get_domain, then the addresses of its current A records
        domain_info == IF env.domain = "object" THEN DomainBody(<<"1.2.3.4">>)
                       ELSE IF env.domain = "array" THEN JsonArray
                       ELSE EmptyDict
        a_records == IF HasKey(domain_info, "current_dns")
                        /\ "a" \in DOMAIN domain_info.dict.current_dns
                     THEN domain_info.dict.current_dns.a ELSE <<>>
        ip_addresses == [i \in DOMAIN a_records |-> a_records[i].ip]
        errors1 == IF env.domain = "fail"
                   THEN <<"Failed to get domain info">> ELSE <<>>
        \* try 2: get_subdomain
        subdomains == IF env.subdomain = "object"
                      THEN <<JoinDot("www", target), JoinDot("api", target)>>
                      ELSE <<>>
        errors2 == IF env.subdomain = "fail"
                   THEN Append(errors1, "Failed to get subdomains")
                   ELSE errors1
        \* try 3: get_whois
        whois_data == IF env.whois = "object"
                      THEN JsonObject([registrar |-> "r"])
                      ELSE IF env.whois = "array" THEN JsonArray
                      ELSE EmptyDict
        errors3 == IF env.whois = "fail"
                   THEN Append(errors2, "Failed to get WHOIS data")
                   ELSE errors2
        \* try 4: the history loop
        hist == HistoryLoop(1, env,
                    [historical_dns |-> <<>>, errors |-> errors3])
        \* the loop over data['ip_addresses'] (at most one address here)
        vh1 == IF Len(ip_addresses) > 0 /\ env.vhosts = "object"
               THEN <<"vhost.example.com">> ELSE <<>>
        vh2 == IF Len(ip_addresses) > 0 /\ env.vhosts = "object"
                  /\ env.domains = "object"
               THEN vh1 \o <<"other.example.com">> ELSE vh1
        errors5 == IF Len(ip_addresses) > 0
                      /\ (env.vhosts = "fail" \/ env.domains = "fail")
                   THEN Append(hist.errors, "Failed to get virtual hosts")
                   ELSE hist.errors
    IN  Return(_create_result("security_trails", target,
                   [subdomains |-> subdomains,
                    historical_dns |-> hist.historical_dns,
                    whois_data |-> whois_data,
                    domain_info |-> domain_info,
                    ip_addresses |-> ip_addresses,
                    virtual_hosts |-> vh2],
                   errors5, ts))

----------------------------------------------------------------------------
(* a BaseEnumerator subclass outside the repository *)

CustomEnvs == {"raise", "errors", "ok"}

CustomEnumerate(target, env, ts) ==
    IF env = "raise" THEN Raise("Exception")
    ELSE Return(_create_result("custom", target, <<>>,
                    IF env = "errors" THEN <<"custom failed">> ELSE <<>>, ts))

----------------------------------------------------------------------------
(* BaseEnumerator.enumerate, dispatched on the strategy *)

Envs(kind) ==
    CASE kind = "web_scanner" -> WebEnvs
      [] kind = "dns_enumeration" -> DnsEnvs
      [] kind = "security_trails" -> SecurityTrailsEnvs
      [] OTHER -> CustomEnvs

Enumerate(kind, target, env, ts) ==
    CASE kind = "web_scanner" -> WebScannerEnumerate(target, env, ts)
      [] kind = "dns_enumeration" -> DNSEnumerate(target, env, ts)
      [] kind = "security_trails" -> SecurityTrailsEnumerate(target, env, ts)
      [] OTHER -> CustomEnumerate(target, env, ts)

----------------------------------------------------------------------------
(* core/exceptions.py *)

SiteAnalyzerExceptions ==
    \* SiteAnalyzerException and its subclasses
    {"SiteAnalyzerException", "EnumerationException", "StorageException",
     "ConfigurationException", "APIException"}

NoException == [cls |-> "None", msg |-> "", cause |-> "None"]

----------------------------------------------------------------------------
(* models/scan_result.py *)

ScanResults(scan_id, target, start_time, status) ==
    [scan_id |-> scan_id, target |-> target, start_time |-> start_time,
     end_time |-> NoTime, status |-> status,
     emails |-> {}, urls |-> {}, endpoints |-> {}, keywords |-> {},
     sourcemap_matches |-> {}, js_paths |-> {},
     subdomains |-> {}, dns_records |-> <<>>, historical_dns |-> <<>>,
     whois_data |-> <<>>, domain_info |-> <<>>,
     ip_addresses |-> {}, virtual_hosts |-> {},
     detected_services |-> <<>>,
     enumeration_results |-> <<>>]

add_enumeration_result(r, result) ==
    [r EXCEPT !.enumeration_results = Append(@, result)]

DictGet(data, key, default) ==
    \* data.get(key, default)
    IF key \in DOMAIN data THEN data[key] ELSE default

DictUpdate(d, e) ==
    \* d.update(e) for a mapping e
    [k \in DOMAIN d \cup DOMAIN e |-> IF k \in DOMAIN e THEN e[k] ELSE d[k]]

\* faulty variant of _merge_web_results: the urls are not merged
_merge_web_results_DropsUrls(r, data) ==
    [r EXCEPT
        !.emails = @ \cup Range(DictGet(data, "emails", <<>>)),
        !.endpoints = @ \cup Range(DictGet(data, "endpoints", <<>>)),
        !.keywords = @ \cup Range(DictGet(data, "keywords", <<>>)),
        !.sourcemap_matches =
            @ \cup Range(DictGet(data, "sourcemap_matches", <<>>)),
        !.js_paths = @ \cup Range(DictGet(data, "js_paths", <<>>))]

\* faulty variant of _merge_web_results: the emails are toggled
\* (symmetric_difference_update) instead of added
_merge_web_results_TogglesEmails(r, data) ==
    LET new == Range(DictGet(data, "emails", <<>>))
    IN  [r EXCEPT
            !.emails = (@ \ new) \cup (new \ @),
            !.urls = @ \cup Range(DictGet(data, "urls", <<>>)),
            !.endpoints = @ \cup Range(DictGet(data, "endpoints", <<>>)),
            !.keywords = @ \cup Range(DictGet(data, "keywords", <<>>)),
            !.sourcemap_matches =
                @ \cup Range(DictGet(data, "sourcemap_matches", <<>>)),
            !.js_paths = @ \cup Range(DictGet(data, "js_paths", <<>>))]

_merge_web_results(r, data) ==
    [r EXCEPT
        !.emails = @ \cup Range(DictGet(data, "emails", <<>>)),
        !.urls = @ \cup Range(DictGet(data, "urls", <<>>)),
        !.endpoints = @ \cup Range(DictGet(data, "endpoints", <<>>)),
        !.keywords = @ \cup Range(DictGet(data, "keywords", <<>>)),
        !.sourcemap_matches =
            @ \cup Range(DictGet(data, "sourcemap_matches", <<>>)),
        !.js_paths = @ \cup Range(DictGet(data, "js_paths", <<>>))]

\* faulty variant of _merge_dns_results: the subdomains are not merged
_merge_dns_results_DropsSubdomains(r, data) ==
    [r EXCEPT
        !.dns_records = DictUpdate(@, DictGet(data, "dns_records", <<>>))]

_merge_dns_results(r, data) ==
    [r EXCEPT
        !.subdomains = @ \cup Range(DictGet(data, "subdomains", <<>>)),
        !.dns_records = DictUpdate(@, DictGet(data, "dns_records", <<>>))]

_merge_security_trails_results(r, data) ==
    \* the updates happen in place and in this order: a dict.update that
    \* raises leaves the earlier ones done.  The result is the record and
    \* the exception class ("None" when none was raised).
    LET whois == DictGet(data, "whois_data", EmptyDict)
        dinfo == DictGet(data, "domain_info", EmptyDict)
        r2 == [r EXCEPT
                 !.subdomains = @ \cup Range(DictGet(data, "subdomains", <<>>)),
                 !.historical_dns =
                     DictUpdate(@, DictGet(data, "historical_dns", <<>>))]
        r3 == [r2 EXCEPT !.whois_data = DictUpdate(@, whois.dict)]
        r4 == [r3 EXCEPT !.domain_info = DictUpdate(@, dinfo.dict)]
        r6 == [r4 EXCEPT
                 !.ip_addresses =
                     @ \cup Range(DictGet(data, "ip_addresses", <<>>)),
                 !.virtual_hosts =
                     @ \cup Range(DictGet(data, "virtual_hosts", <<>>))]
    IN  IF whois.json # "object" THEN [r |-> r2, exc |-> "ValueError"]
        ELSE IF dinfo.json # "object" THEN [r |-> r3, exc |-> "ValueError"]
        ELSE [r |-> r6, exc |-> "None"]

\* faulty variant of MergeFrom: an outcome of an unknown strategy is merged
\* like one of web_scanner
RECURSIVE MergeFrom_UnknownAsWeb(_, _)
MergeFrom_UnknownAsWeb(r, i) ==
    IF i > Len(r.enumeration_results) THEN [r |-> r, exc |-> "None"]
    ELSE LET result == r.enumeration_results[i]
         IN  IF result.enumerator_name = "dns_enumeration"
             THEN MergeFrom_UnknownAsWeb(
                      _merge_dns_results(r, result.data), i + 1)
             ELSE IF result.enumerator_name = "security_trails"
             THEN LET m == _merge_security_trails_results(r, result.data)
                  IN  IF m.exc = "None"
                      THEN MergeFrom_UnknownAsWeb(m.r, i + 1) ELSE m
             ELSE MergeFrom_UnknownAsWeb(
                      _merge_web_results(r, result.data), i + 1)

RECURSIVE MergeFrom(_, _)
MergeFrom(r, i) ==
    \* the loop of merge_results from the i-th recorded outcome on
    IF i > Len(r.enumeration_results) THEN [r |-> r, exc |-> "None"]
    ELSE LET result == r.enumeration_results[i]
         IN  IF result.enumerator_name = "web_scanner"
             THEN MergeFrom(_merge_web_results(r, result.data), i + 1)
             ELSE IF result.enumerator_name = "dns_enumeration"
             THEN MergeFrom(_merge_dns_results(r, result.data), i + 1)
             ELSE IF result.enumerator_name = "security_trails"
             THEN LET m == _merge_security_trails_results(r, result.data)
                  IN  IF m.exc = "None" THEN MergeFrom(m.r, i + 1) ELSE m
             ELSE MergeFrom(r, i + 1)

merge_results(r) == MergeFrom(r, 1)

\* the outcomes that are added to a ScanResults: payloads of each strategy
\* (with repeated values, with keys missing, with a WHOIS body that is a
\* JSON array) and one of a strategy that merge_results does not know
MergeOutcomes ==
    {_create_result("web_scanner", Target,
         [WebDefaults EXCEPT !.emails = <<"a@b.com", "a@b.com">>,
                             !.urls = <<"http://example.com/x">>,
                             !.js_paths = <<"/app.js">>],
         <<>>, 1),
     _create_result("web_scanner", Target,
         [emails |-> <<"c@d.org", "a@b.com">>, endpoints |-> <<"/api/v1">>],
         <<"Web scanning failed">>, 1),
     _create_result("dns_enumeration", Target,
         [subdomains |-> <<"www.example.com", "www.example.com">>,
          dns_records |-> [a |-> <<"1.2.3.4">>, hostname |-> "None"],
          dns_dumpster_data |-> <<>>],
         <<>>, 1),
     _create_result("dns_enumeration", Target,
         [subdomains |-> <<"mail.example.com">>,
          dns_records |-> [a |-> <<"5.6.7.8">>]],
         <<>>, 1),
     _create_result("security_trails", Target,
         [subdomains |-> <<"www.example.com", "api.example.com">>,
          historical_dns |-> [a |-> JsonObject([records |-> <<>>])],
          whois_data |-> JsonObject([registrar |-> "r"]),
          domain_info |-> DomainBody(<<"1.2.3.4">>),
          ip_addresses |-> <<"1.2.3.4">>,
          virtual_hosts |-> <<"vhost.example.com", "vhost.example.com">>],
         <<>>, 1),
     _create_result("security_trails", Target,
         [subdomains |-> <<"old.example.com">>,
          historical_dns |-> <<>>,
          whois_data |-> JsonArray,
          domain_info |-> EmptyDict,
          ip_addresses |-> <<"9.9.9.9">>,
          virtual_hosts |-> <<"other.example.com">>],
         <<>>, 1),
     _create_result("custom", Target,
         [emails |-> <<"x@custom.net">>,
          subdomains |-> <<"custom.example.com">>,
          ip_addresses |-> <<"7.7.7.7">>],
         <<>>, 1)}

MergeInit ==
    /\ mergeRecord = ScanResults("scan-1", Target, 1, "running")
    /\ mergeExc = "None"
    /\ mergeCalls = 0

----------------------------------------------------------------------------
(* analyzers/dom_patterns.py: the security score *)

\* A score is a Python float; it is kept as the exact fraction num/den in
\* lowest terms (den > 0), which the float approximates.
RECURSIVE GCD(_, _)
GCD(a, b) == IF b = 0 THEN a ELSE GCD(b, a % b)

Frac(n, d) == LET g == GCD(n, d) IN [num |-> n \div g, den |-> d \div g]

\* f >= k and f <= g for fractions f, g and an integer k
FracGeq(f, k) == f.num >= k * f.den
FracLeq(f, g) == f.num * g.den <= g.num * f.den

\* DOMPatternMatch: description and the matched strings are left out, count
\* is the number of matched strings
DOMPatternMatch(name, severity, count, file_source) ==
    [name |-> name, severity |-> severity, count |-> count,
     file_source |-> file_source]

\* faulty variant of severity_weights: medium weighs as much as info
severity_weights_MediumAsInfo == [high |-> 10, medium |-> 1, info |-> 1]

severity_weights == [high |-> 10, medium |-> 5, info |-> 1]

\* faulty variant of ScoreFrom: the count of a match is ignored
RECURSIVE ScoreFrom_IgnoresCount(_, _)
ScoreFrom_IgnoresCount(matches, i) ==
    IF i > Len(matches) THEN 0
    ELSE DictGet(severity_weights, matches[i].severity, 1)
            + ScoreFrom_IgnoresCount(matches, i + 1)

RECURSIVE ScoreFrom(_, _)
ScoreFrom(matches, i) ==
    \* what the loop adds to total_score from the i-th match on
    IF i > Len(matches) THEN 0
    ELSE LET match == matches[i]
             weight == DictGet(severity_weights, match.severity, 1)
         IN  weight * match.count + ScoreFrom(matches, i + 1)

RECURSIVE CountFrom(_, _, _)
CountFrom(matches, i, severity) ==
    \* what the loop adds to severity_counts[severity] from the i-th match on
    IF i > Len(matches) THEN 0
    ELSE (IF matches[i].severity = severity THEN matches[i].count ELSE 0)
            + CountFrom(matches, i + 1, severity)

\* faulty variant of normalized_score: the score is not capped
normalized_score_NoCap(total_score, max_possible_score) ==
    IF max_possible_score > 0
    THEN Frac(total_score * 100, max_possible_score)
    ELSE Frac(0, 1)

normalized_score(total_score, max_possible_score) ==
    IF max_possible_score > 0
    THEN LET x == Frac(total_score * 100,
                       IF max_possible_score > 1 THEN max_possible_score
                       ELSE 1)
         IN  IF FracGeq(x, 100) THEN Frac(100, 1) ELSE x
    ELSE Frac(0, 1)

\* faulty variant of _get_risk_level: a score of exactly 40 is LOW
_get_risk_level_StrictMedium(score) ==
    IF FracGeq(score, 70) THEN "HIGH"
    ELSE IF FracGeq(score, 40) /\ score # Frac(40, 1) THEN "MEDIUM"
    ELSE IF FracGeq(score, 20) THEN "LOW"
    ELSE "MINIMAL"

_get_risk_level(score) ==
    IF FracGeq(score, 70) THEN "HIGH"
    ELSE IF FracGeq(score, 40) THEN "MEDIUM"
    ELSE IF FracGeq(score, 20) THEN "LOW"
    ELSE "MINIMAL"

get_security_score(matches) ==
    LET total_score == ScoreFrom(matches, 1)
        severity_counts ==
            [sev \in {"high", "medium", "info"} |-> CountFrom(matches, 1, sev)]
        max_possible_score == Len(matches) * 10
        score == normalized_score(total_score, max_possible_score)
    IN  \* severity_counts[match.severity] += match.count
        IF \E i \in DOMAIN matches :
              matches[i].severity \notin DOMAIN severity_counts
        THEN Raise("KeyError")
        ELSE Return([total_score |-> total_score,
                     normalized_score |-> score,
                     severity_breakdown |-> severity_counts,
                     total_patterns |-> Len(matches),
                     risk_level |-> _get_risk_level(score)])

\* the patterns whose matches are scored: the pattern file fixes the severity
\* of a name, and may use a severity outside high, medium, info
ScorePatterns ==
    {[name |-> "html_sink", severity |-> "high"],
     [name |-> "cookie_access", severity |-> "medium"],
     [name |-> "console_log", severity |-> "info"],
     [name |-> "debug_flag", severity |-> "low"]}

ScoreMatches ==
    {DOMPatternMatch(p.name, p.severity, c, "None") :
        p \in ScorePatterns, c \in 1..MaxCount}

ScoreMatchLists ==
    UNION {[1..n -> ScoreMatches] : n \in 0..MaxMatches}

ScoreIdle ==
    /\ scoreMatches = <<>>
    /\ scoreResult = [outcome |-> "idle"]

ScoreInit ==
    /\ scoreMatches \in ScoreMatchLists
    /\ scoreResult = [outcome |-> "pending"]

----------------------------------------------------------------------------
(* analyzers/dom_patterns.py: the pattern definitions and analyze_content *)

\* A regex is kept as what re.findall does with it: it does not compile
\* (valid = FALSE), or it finds hits strings in a content that has what the
\* patterns look for ("rich") and none in one that has not ("blank").
Regex(valid, hits) == [valid |-> valid, hits |-> hits]

Contents == {"blank", "rich"}

re_findall(regex, content) ==
    IF regex.valid
    THEN Return(IF content = "rich" THEN regex.hits ELSE 0)
    ELSE Raise("re.error")

PatternKeys == {"name", "description", "regex", "severity"}

Pattern(name, regex, severity) ==
    [name |-> name, description |-> "d", regex |-> regex,
     severity |-> severity]

\* the definition without one of its keys
Without(pattern, key) == [k \in DOMAIN pattern \ {key} |-> pattern[k]]

\* the definitions a pattern file holds (json.load returns whatever the file
\* lists): well-formed ones that match or not, one whose regex does not
\* compile, and definitions that lack a key
PatternDefs ==
    LET html_sink == Pattern("html_sink", Regex(TRUE, 2), "high")
        eval_usage == Pattern("eval_usage", Regex(TRUE, 0), "high")
        cookie_access == Pattern("cookie_access", Regex(TRUE, 1), "medium")
        bad_regex == Pattern("bad_regex", Regex(FALSE, 0), "info")
    IN  {html_sink, eval_usage, cookie_access, bad_regex,
         Without(bad_regex, "name"),
         Without(html_sink, "regex"),
         Without(cookie_access, "severity"),
         Without(eval_usage, "description"),
         Without(html_sink, "name")}

RECURSIVE AnalyzeFrom(_, _, _, _, _)
AnalyzeFrom(patterns, content, i, source_file, matches) ==
    \* the loop of analyze_content from the i-th definition on
    IF i > Len(patterns) THEN Return(matches)
    ELSE LET pattern == patterns[i]
         IN  \* pattern['regex']: a KeyError is not an re.error
             IF "regex" \notin DOMAIN pattern THEN Raise("KeyError")
             ELSE LET regex_matches == re_findall(pattern.regex, content)
                  IN  IF regex_matches.outcome = "raise"
                      THEN \* except re.error: the message reads pattern['name']
                           IF "name" \in DOMAIN pattern
                           THEN AnalyzeFrom(patterns, content, i + 1, source_file,
                                            matches)
                           ELSE Raise("KeyError")
                      ELSE IF regex_matches.value > 0
                      THEN \* DOMPatternMatch(name=pattern['name'], ...)
                           IF {"name", "description", "severity"}
                                  \subseteq DOMAIN pattern
                           THEN AnalyzeFrom(patterns, content, i + 1, source_file,
                                    Append(matches,
                                        DOMPatternMatch(pattern.name,
                                            pattern.severity,
                                            regex_matches.value,
                                            source_file)))
                           ELSE Raise("KeyError")
                      ELSE AnalyzeFrom(patterns, content, i + 1, source_file, matches)

analyze_content(patterns, content, source_file) ==
    AnalyzeFrom(patterns, content, 1, source_file, <<>>)

PatternLists == UNION {[1..n -> PatternDefs] : n \in 0..MaxPatterns}

DomIdle ==
    /\ domPatterns = <<>>
    /\ domResult = [outcome |-> "idle"]

DomInit ==
    /\ domPatterns \in PatternLists
    /\ domResult = [outcome |-> "pending"]

----------------------------------------------------------------------------
(* analyzers/dom_patterns.py: analyze_js_results *)

\* the fallback definitions of _load_patterns, both matching a rich content
DefaultPatterns ==
    <<Pattern("html_sink", Regex(TRUE, 2), "high"),
      Pattern("eval_usage", Regex(TRUE, 1), "high")>>

\* the pattern lists of the analyzer whose analyze_js_results is called:
\* the fallback, and a file with a regex that does not compile
JsPatternLists ==
    {DefaultPatterns,
     <<Pattern("bad_regex", Regex(FALSE, 0), "info"),
       Pattern("cookie_access", Regex(TRUE, 1), "medium")>>}

ScriptNames == {"dom_probe.js", "storage_probe.js"}

\* what an injected script returned: a string, an object (dict) or a list;
\* content is what its string form holds
ScriptResults ==
    [name : ScriptNames, type : {"str", "dict", "list"}, content : Contents]

\* js_results: a dict keeps insertion order and has each name once
JsMappings ==
    UNION {{m \in [1..n -> ScriptResults] :
              \A i, j \in 1..n : m[i].name = m[j].name => i = j} :
           n \in 0..MaxScripts}

RECURSIVE JsFrom(_, _, _, _)
JsFrom(patterns, js_results, i, all_matches) ==
    \* the loop of analyze_js_results from the i-th entry on
    IF i > Len(js_results) THEN Return(all_matches)
    ELSE LET script_name == js_results[i].name
             script_result == js_results[i]
         IN  IF script_result.type \in {"dict", "str"}
             THEN \* content = str(script_result), or the string itself
                  LET found == analyze_content(patterns,
                                   script_result.content, script_name)
                  IN  IF found.outcome = "raise" THEN found
                      ELSE JsFrom(patterns, js_results, i + 1,
                                  all_matches \o found.value)
             ELSE \* neither isinstance branch: the entry is passed over
                  JsFrom(patterns, js_results, i + 1, all_matches)

analyze_js_results(patterns, js_results) ==
    JsFrom(patterns, js_results, 1, <<>>)

JsIdle ==
    /\ jsPatterns = <<>>
    /\ jsResults = <<>>
    /\ jsOut = [outcome |-> "idle"]

JsInit ==
    /\ jsPatterns \in JsPatternLists
    /\ jsResults \in JsMappings
    /\ jsOut = [outcome |-> "pending"]

----------------------------------------------------------------------------
(* Python floats (IEEE 754 binary64) as the plugins use them *)

\* A float x with 0 <= x < 4 that is 0 or at least 0.0625 is a multiple of
\* 2^-56; it is kept as the integer x * 2^56, split into two limbs of 28
\* bits so that each fits a machine integer of the checker.
Limb == 2^28

Dbl(hi, lo) == [hi |-> hi, lo |-> lo]

RECURSIVE BitLen(_)
BitLen(h) == IF h = 0 THEN 0 ELSE 1 + BitLen(h \div 2)

\* a + b, rounded to 53 significant bits, ties to even
DblAdd(a, b) ==
    LET lo1 == a.lo + b.lo
        hi1 == a.hi + b.hi + lo1 \div Limb
        lo2 == lo1 % Limb
        \* the sum has BitLen(hi1) + 28 bits; those beyond 53 are rounded off
        bl == BitLen(hi1)
        s == IF bl > 25 THEN 2^(bl - 25) ELSE 1
        rho == lo2 % s
        q == lo2 \div s
        lo3 == IF 2 * rho > s \/ (2 * rho = s /\ q % 2 = 1)
               THEN lo2 - rho + s ELSE lo2 - rho
    IN  Dbl(hi1 + lo3 \div Limb, lo3 % Limb)

DblGt(a, b) == a.hi > b.hi \/ (a.hi = b.hi /\ a.lo > b.lo)
DblMin(a, b) == IF DblGt(a, b) THEN b ELSE a

\* the float that a literal of n tenths denotes: 0.0, 0.1, ..., 0.5 and 1.0
FloatOfTenths(n) ==
    CASE n = 0 -> Dbl(0, 0)
      [] n = 1 -> Dbl(26843545, 161061274)
      [] n = 2 -> Dbl(53687091, 53687092)
      [] n = 3 -> Dbl(80530636, 214748364)
      [] n = 4 -> Dbl(107374182, 107374184)
      [] n = 5 -> Dbl(134217728, 0)
      [] n = 10 -> Dbl(268435456, 0)

----------------------------------------------------------------------------
(* plugins/*.py: the framework detectors and the detection engine *)

PluginNames == {"React", "Angular", "Vue.js", "Webpack"}

\* What a page and its script results can show, by what the plugins look
\* for.  On the content: "classname" (className=), "next_data"
\* (__NEXT_DATA__), "interpolation" ({{ x }}),
\* "webpack_require" (__webpack_require__), "webpack_hmr" (__webpack_hmr),
\* "source_map" (//# sourceMappingURL=).  On js_results: "react_script" (a
\* script source react.min.js), and the names React, Vue, ng in
\* window_properties ("react_global", "vue_global", "ng_global").
ContentFeatures == {"classname", "next_data", "interpolation",
                    "webpack_require", "webpack_hmr", "source_map"}
ScriptFeatures == {"react_script"}
GlobalFeatures == {"react_global", "vue_global", "ng_global"}

\* window_properties is a list ("list"), or None ("none": no name is in it)
DetectInputs ==
    {[features |-> f, window_properties |-> "list"] :
        f \in SUBSET (ContentFeatures \cup ScriptFeatures \cup GlobalFeatures)}
    \cup {[features |-> f, window_properties |-> "none"] :
        f \in SUBSET (ContentFeatures \cup ScriptFeatures)}

\* the signals of each detect that those features can fire, in the order of
\* the code, with the tenths each adds to confidence
Signals(plugin) ==
    CASE plugin = "React" ->
            <<[feature |-> "react_script", tenths |-> 3],
              [feature |-> "react_global", tenths |-> 4],
              [feature |-> "classname", tenths |-> 2],
              [feature |-> "next_data", tenths |-> 5]>>
      [] plugin = "Angular" ->
            <<[feature |-> "ng_global", tenths |-> 5],
              [feature |-> "interpolation", tenths |-> 3]>>
      [] plugin = "Vue.js" ->
            <<[feature |-> "vue_global", tenths |-> 5],
              [feature |-> "interpolation", tenths |-> 3]>>
      [] plugin = "Webpack" ->
            <<[feature |-> "webpack_require", tenths |-> 4],
              [feature |-> "webpack_hmr", tenths |-> 2],
              [feature |-> "source_map", tenths |-> 1]>>

\* the plugins that call _check_js_globals
ChecksGlobals == {"React", "Angular", "Vue.js"}

RECURSIVE ConfidenceFrom(_, _, _, _)
ConfidenceFrom(signals, input, i, acc) ==
    \* the statements confidence += ... from the i-th signal on
    IF i > Len(signals) THEN acc
    ELSE IF signals[i].feature \in input.features
    THEN ConfidenceFrom(signals, input, i + 1,
             [confidence |-> DblAdd(acc.confidence,
                                    FloatOfTenths(signals[i].tenths)),
              indicators |-> Append(acc.indicators, signals[i].feature)])
    ELSE ConfidenceFrom(signals, input, i + 1, acc)

FrameworkDetection(name, confidence, indicators) ==
    [name |-> name, confidence |-> confidence, indicators |-> indicators]

\* detect returns None when the confidence is too low
NoDetection == [name |-> "None"]

detect(plugin, input) ==
    \* global_var in window_props raises when window_props is None
    IF plugin \in ChecksGlobals /\ input.window_properties = "none"
    THEN Raise("TypeError")
    ELSE LET acc == ConfidenceFrom(Signals(plugin), input, 1,
                        [confidence |-> FloatOfTenths(0),
                         indicators |-> <<>>])
         IN  IF DblGt(acc.confidence, FloatOfTenths(3))
             THEN Return(FrameworkDetection(plugin,
                             DblMin(acc.confidence, FloatOfTenths(10)),
                             acc.indicators))
             ELSE Return(NoDetection)

\* list.sort(key=lambda x: x.confidence, reverse=True): a stable sort, the
\* detections of equal confidence keep their order
RECURSIVE InsertDesc(_, _)
InsertDesc(sorted, d) ==
    IF sorted = <<>> THEN <<d>>
    ELSE IF DblGt(d.confidence, Head(sorted).confidence)
    THEN <<d>> \o sorted
    ELSE <<Head(sorted)>> \o InsertDesc(Tail(sorted), d)

RECURSIVE SortFrom(_, _, _)
SortFrom(detections, i, sorted) ==
    IF i > Len(detections) THEN sorted
    ELSE SortFrom(detections, i + 1, InsertDesc(sorted, detections[i]))

\* faulty variant of SortByConfidence: the list is left as collected
SortByConfidence_NoSort(detections) == detections

SortByConfidence(detections) == SortFrom(detections, 1, <<>>)

\* faulty variant of CollectFrom: no try/except around plugin.detect
RECURSIVE CollectFrom_NoHandler(_, _, _, _)
CollectFrom_NoHandler(plugins, input, i, detections) ==
    IF i > Len(plugins) THEN Return(detections)
    ELSE LET detection == detect(plugins[i], input)
         IN  IF detection.outcome = "raise" THEN detection
             ELSE IF detection.value # NoDetection
             THEN CollectFrom_NoHandler(plugins, input, i + 1,
                                        Append(detections, detection.value))
             ELSE CollectFrom_NoHandler(plugins, input, i + 1, detections)

RECURSIVE CollectFrom(_, _, _, _)
CollectFrom(plugins, input, i, detections) ==
    \* the loop of detect_frameworks from the i-th plugin on
    IF i > Len(plugins) THEN Return(detections)
    ELSE LET detection == detect(plugins[i], input)
         IN  IF detection.outcome = "raise"
             THEN \* except Exception: the error is printed
                  CollectFrom(plugins, input, i + 1, detections)
             ELSE IF detection.value # NoDetection
             THEN CollectFrom(plugins, input, i + 1,
                              Append(detections, detection.value))
             ELSE CollectFrom(plugins, input, i + 1, detections)

detect_frameworks(plugins, input) ==
    LET collected == CollectFrom(plugins, input, 1, <<>>)
    IN  IF collected.outcome = "raise" THEN collected
        ELSE Return(SortByConfidence(collected.value))

\* self.plugins: __init__ lists React, Angular, Vue.js, Webpack; the list is
\* a public attribute and every order of it is tried
PluginLists ==
    {p \in [1..Cardinality(PluginNames) -> PluginNames] :
        \A i, j \in DOMAIN p : p[i] = p[j] => i = j}

DetectIdle ==
    /\ detPlugins = <<>>
    /\ detInput = [features |-> {}, window_properties |-> "list"]
    /\ detOut = [outcome |-> "idle"]

DetectInit ==
    /\ detPlugins \in PluginLists
    /\ detInput \in DetectInputs
    /\ detOut = [outcome |-> "pending"]

----------------------------------------------------------------------------
(* storage/*.py: the file, SQL and MongoDB backends *)

Backends == {"file", "sql", "mongodb"}

StoredIds == {"scan-1", "scan-2"}

\* A datetime is the number of microseconds since an origin, as
\* datetime.now() gives it; 0 stands for None (no end_time).
StartTimes == {1000, 1500}
EndTimes == {0, 2750}

\* The records handed to save.  emails stands for the deduplicated fields
\* (each is written as list(...) and read back with set(...)); the mapping
\* fields are written and read unchanged and are left out.
StoredOutcomes ==
    {<<>>,
     <<[enumerator_name |-> "dns_enumeration", target |-> "example.com",
        timestamp |-> 1250, data |-> "payload", errors |-> <<>>]>>}

StoredRecords ==
    [scan_id : StoredIds, target : {"example.com"},
     start_time : StartTimes, end_time : EndTimes,
     status : {"completed", "failed"},
     emails : {{}, {"a@b.com"}},
     enumeration_results : StoredOutcomes]

\* load returns None
NoRecord == [scan_id |-> "None"]

\* no file, no row, no document under the id
Absent == [absent |-> TRUE]

\* datetime.isoformat() writes the datetime to the microsecond, and
\* datetime.fromisoformat() reads it back
isoformat(t) == [iso |-> t]
fromisoformat(s) == s.iso

\* JSON null, SQL NULL
Null == [null |-> TRUE]

\* BSON keeps a datetime as a count of milliseconds: pymongo drops the
\* microseconds below the millisecond when it encodes a datetime
BsonDatetime(t) == t - (t % 1000)

\* list(a_set): the elements in some order
RECURSIVE list(_)
list(S) ==
    IF S = {} THEN <<>>
    ELSE LET x == CHOOSE x \in S : TRUE
         IN  <<x>> \o list(S \ {x})

\* a datetime as a backend keeps it: an ISO string ("iso": file, SQL) or a
\* BSON datetime ("bson": MongoDB), and the datetime read back from it
Stamp(encoding, t) ==
    IF encoding = "iso" THEN isoformat(t) ELSE BsonDatetime(t)
Unstamp(encoding, v) ==
    IF encoding = "iso" THEN fromisoformat(v) ELSE v

OutcomeDicts(outcomes, encoding) ==
    [i \in DOMAIN outcomes |->
        [enumerator_name |-> outcomes[i].enumerator_name,
         target |-> outcomes[i].target,
         timestamp |-> Stamp(encoding, outcomes[i].timestamp),
         data |-> outcomes[i].data,
         errors |-> outcomes[i].errors]]

OutcomesFromDicts(dicts, encoding) ==
    [i \in DOMAIN dicts |->
        [enumerator_name |-> dicts[i].enumerator_name,
         target |-> dicts[i].target,
         timestamp |-> Unstamp(encoding, dicts[i].timestamp),
         data |-> dicts[i].data,
         errors |-> dicts[i].errors]]

\* ---- FileStorage: one JSON file per scan_id ----

file_save(store, result) ==
    LET result_dict ==
            [scan_id |-> result.scan_id,
             target |-> result.target,
             start_time |-> isoformat(result.start_time),
             end_time |-> IF result.end_time # 0
                          THEN isoformat(result.end_time) ELSE Null,
             status |-> result.status,
             emails |-> list(result.emails),
             enumeration_results |->
                 OutcomeDicts(result.enumeration_results, "iso")]
    IN  \* open(file_path, 'w') and json.dump: the file is rewritten
        [store |-> [store EXCEPT ![result.scan_id] = result_dict],
         out |-> Return(result.scan_id)]

file_load(store, scan_id) ==
    IF store[scan_id] = Absent THEN Return(NoRecord)
    ELSE LET data == store[scan_id]
         IN  Return([scan_id |-> data.scan_id,
                     target |-> data.target,
                     start_time |-> fromisoformat(data.start_time),
                     end_time |-> IF data.end_time # Null
                                  THEN fromisoformat(data.end_time) ELSE 0,
                     status |-> data.status,
                     emails |-> Range(data.emails),
                     enumeration_results |->
                         OutcomesFromDicts(data.enumeration_results, "iso")])

file_entries(store) ==
    {[scan_id |-> store[id].scan_id, target |-> store[id].target,
      start_time |-> store[id].start_time, status |-> store[id].status] :
        id \in {i \in StoredIds : store[i] # Absent}}

file_delete(store, scan_id) ==
    IF store[scan_id] # Absent
    THEN [store |-> [store EXCEPT ![scan_id] = Absent], out |-> Return(TRUE)]
    ELSE [store |-> store, out |-> Return(FALSE)]

\* ---- SQLStorage: one row per scan_id (PRIMARY KEY) ----

sql_save(store, result) ==
    LET result_dict ==
            [emails |-> list(result.emails),
             enumeration_results |->
                 OutcomeDicts(result.enumeration_results, "iso")]
        row == [scan_id |-> result.scan_id,
                target |-> result.target,
                start_time |-> isoformat(result.start_time),
                end_time |-> IF result.end_time # 0
                             THEN isoformat(result.end_time) ELSE Null,
                status |-> result.status,
                result_data |-> result_dict]
    IN  \* INSERT OR REPLACE INTO scans
        [store |-> [store EXCEPT ![result.scan_id] = row],
         out |-> Return(result.scan_id)]

sql_load(store, scan_id) ==
    IF store[scan_id] = Absent THEN Return(NoRecord)
    ELSE LET row == store[scan_id]
             data == row.result_data
         IN  Return([scan_id |-> row.scan_id,
                     target |-> row.target,
                     start_time |-> fromisoformat(row.start_time),
                     end_time |-> IF row.end_time # Null
                                  THEN fromisoformat(row.end_time) ELSE 0,
                     status |-> row.status,
                     emails |-> Range(data.emails),
                     enumeration_results |->
                         OutcomesFromDicts(data.enumeration_results, "iso")])

sql_entries(store) ==
    {[scan_id |-> store[id].scan_id, target |-> store[id].target,
      start_time |-> store[id].start_time, status |-> store[id].status] :
        id \in {i \in StoredIds : store[i] # Absent}}

sql_delete(store, scan_id) ==
    \* DELETE FROM scans WHERE scan_id = ?; rowcount > 0
    IF store[scan_id] # Absent
    THEN [store |-> [store EXCEPT ![scan_id] = Absent], out |-> Return(TRUE)]
    ELSE [store |-> store, out |-> Return(FALSE)]

\* ---- MongoDBStorage: one document per _id ----

mongo_save(store, result) ==
    \* created_at is written too; nothing reads it
    LET result_dict ==
            [_id |-> result.scan_id,
             scan_id |-> result.scan_id,
             target |-> result.target,
             start_time |-> BsonDatetime(result.start_time),
             end_time |-> BsonDatetime(result.end_time),
             status |-> result.status,
             emails |-> list(result.emails),
             enumeration_results |->
                 OutcomeDicts(result.enumeration_results, "bson")]
    IN  \* replace_one({'_id': scan_id}, result_dict, upsert=True)
        [store |-> [store EXCEPT ![result.scan_id] = result_dict],
         out |-> Return(result.scan_id)]

mongo_load(store, scan_id) ==
    IF store[scan_id] = Absent THEN Return(NoRecord)
    ELSE LET data == store[scan_id]
         IN  Return([scan_id |-> data.scan_id,
                     target |-> data.target,
                     start_time |-> data.start_time,
                     end_time |-> data.end_time,
                     status |-> data.status,
                     emails |-> Range(data.emails),
                     enumeration_results |->
                         OutcomesFromDicts(data.enumeration_results, "bson")])

mongo_entries(store) ==
    {[_id |-> store[id]._id, scan_id |-> store[id].scan_id,
      target |-> store[id].target, start_time |-> store[id].start_time,
      status |-> store[id].status] :
        id \in {i \in StoredIds : store[i] # Absent}}

mongo_delete(store, scan_id) ==
    \* delete_one({'_id': scan_id}); deleted_count > 0
    IF store[scan_id] # Absent
    THEN [store |-> [store EXCEPT ![scan_id] = Absent], out |-> Return(TRUE)]
    ELSE [store |-> store, out |-> Return(FALSE)]

\* ---- the interface of BaseStorage ----

save(backend, store, result) ==
    CASE backend = "file" -> file_save(store, result)
      [] backend = "sql" -> sql_save(store, result)
      [] backend = "mongodb" -> mongo_save(store, result)

load(backend, store, scan_id) ==
    CASE backend = "file" -> file_load(store, scan_id)
      [] backend = "sql" -> sql_load(store, scan_id)
      [] backend = "mongodb" -> mongo_load(store, scan_id)

delete(backend, store, scan_id) ==
    CASE backend = "file" -> file_delete(store, scan_id)
      [] backend = "sql" -> sql_delete(store, scan_id)
      [] backend = "mongodb" -> mongo_delete(store, scan_id)

\* the instant a listed start_time stands for: an ISO string in the file and
\* SQL backends, a datetime in MongoDB
Instant(backend, start_time) ==
    IF backend = "mongodb" THEN start_time ELSE fromisoformat(start_time)

\* list_scans: the entries, the most recent start_time first, at most limit
\* of them; the order of entries with the same start_time is not determined
list_scans(backend, store, limit) ==
    LET entries == CASE backend = "file" -> file_entries(store)
                     [] backend = "sql" -> sql_entries(store)
                     [] backend = "mongodb" -> mongo_entries(store)
        n == Cardinality(entries)
        m == IF limit < n THEN limit ELSE n
    IN  {SubSeq(s, 1, m) :
            s \in {s \in [1..n -> entries] :
                     /\ \A i, j \in 1..n : s[i] = s[j] => i = j
                     /\ \A i, j \in 1..n : i < j =>
                           Instant(backend, s[i].start_time)
                               >= Instant(backend, s[j].start_time)}}

\* the limits the callers pass: 1, and the default
Limits == {1, 100}

StoreIdle ==
    /\ stBackend = "none"
    /\ stStore = [id \in StoredIds |-> Absent]
    /\ stSaved = [id \in StoredIds |-> NoRecord]
    /\ stOut = [op |-> "idle"]

StoreInit ==
    /\ stBackend \in Backends
    /\ stStore = [id \in StoredIds |-> Absent]
    /\ stSaved = [id \in StoredIds |-> NoRecord]
    /\ stOut = [op |-> "none"]

----------------------------------------------------------------------------
(* interfaces/grpc_server.py: analyze calls of several worker threads *)

\* the worker threads that are inside Analyze at the same time
Calls == 1..MaxCalls

CallTargets == {"example.com", "example.org"}

\* str(uuid.uuid4()): a new identifier for every call
uuid4(call) == <<"scan", call>>

\* self.enumerators of the analyzer of the servicer, under the default
\* configuration
SharedEnumerators == <<"web_scanner", "dns_enumeration">>

\* what the strategies meet during these calls
CallEnvs(kind) ==
    IF kind = "web_scanner"
    THEN {e \in WebEnvs : e.fail_at = "launch" \/ e.page = "rich"}
    ELSE {e \in DnsEnvs : e.resolve = "ok" /\ e.reverse = "ok"}

\* faulty variant of ResultsCell: the record is kept on the analyzer, which
\* the threads share
ResultsCell_OnAnalyzer(call) == 1

\* `results` is a local variable of analyze: each call has its own
ResultsCell(call) == call

NoResults == ScanResults("none", "none", NoTime, "pending")

\* datetime.now() during the calls: the clock is read as one instant
CallInstant == 1

ConcIdle ==
    /\ ccTarget = <<>>
    /\ ccPc = <<>>
    /\ ccIdx = <<>>
    /\ ccResults = <<>>
    /\ ccOwn = <<>>
    /\ ccStore = {}
    /\ ccReturned = <<>>
    /\ ccOverlap = {}

ConcInit ==
    /\ ccTarget \in [Calls -> CallTargets]
    /\ ccPc = [c \in Calls |-> "request"]
    /\ ccIdx = [c \in Calls |-> 0]
    /\ ccResults = [c \in Calls |-> NoResults]
    /\ ccOwn = [c \in Calls |-> <<>>]
    /\ ccStore = {}
    /\ ccReturned = [c \in Calls |-> NoResults]
    /\ ccOverlap = {}

----------------------------------------------------------------------------
(* navigation/prompt_navigator.py *)

\* what the prompt asks for, by the branch of navigate_with_prompt it takes;
\* "click", "scroll" and "other" are custom prompts
PromptKinds == {"register", "login", "search", "click", "scroll", "other"}

\* What the browser and the page do during a session.
\*   screenshot: page.screenshot() and save_screenshot work, or raise
\*   link, submit: the page has the register/login link, the submit button
\*                 (for a search: the search field; for a click: a clickable
\*                 element)
\*   fields: how many of the credential fields are found and filled
\*   captcha: no captcha, one that is solved, one that capsolver fails to
\*            solve, one whose handling raises
\*   raises: the page call that raises: none, page.goto, the first call of
\*           the handler, the last call of the handler
NavEnvs ==
    [screenshot : {"ok", "fail"}, link : BOOLEAN, submit : BOOLEAN,
     fields : 0..MaxFields,
     captcha : {"none", "solved", "failed", "error"},
     raises : {"none", "goto", "handler_start", "handler_end"}]

NavigationStep(step_number, action, success) ==
    [step_number |-> step_number, action |-> action, success |-> success]

_take_screenshot_step(counter, action, env) ==
    \* self.step_counter += 1, then the screenshot, which may fail
    [counter |-> counter + 1,
     step |-> NavigationStep(counter + 1, action, env.screenshot = "ok")]

\* the steps that are built without a screenshot: step_number is
\* self.step_counter + 1 and the counter is left as it is
FailedStep(counter, action) == NavigationStep(counter + 1, action, FALSE)

Shots(actions) ==
    [i \in DOMAIN actions |-> [op |-> "shot", action |-> actions[i]]]

\* _handle_captcha_if_present: no step, a screenshot step, or a failed step
CaptchaOps(env) ==
    CASE env.captcha = "none" -> <<>>
      [] env.captcha = "solved" -> Shots(<<"solve_captcha">>)
      [] env.captcha = "failed" ->
            <<[op |-> "failed", action |-> "captcha_failed"]>>
      [] env.captcha = "error" ->
            <<[op |-> "failed", action |-> "captcha_error"]>>

RaiseOp == <<[op |-> "raise", action |-> "raise"]>>

\* the statements of a handler that make a step or raise, in order
HandlerOps(prompt, env) ==
    LET first == IF env.raises = "handler_start" THEN RaiseOp ELSE <<>>
        last == IF env.raises = "handler_end" THEN RaiseOp ELSE <<>>
        fills == [i \in 1..env.fields |->
                     [op |-> "shot", action |-> "fill_field"]]
    IN  CASE prompt = "register" ->
                first
                \o (IF env.link THEN Shots(<<"click_register">>) ELSE <<>>)
                \o fills \o CaptchaOps(env)
                \o (IF env.submit
                    THEN Shots(<<"submit_registration">>) \o last ELSE <<>>)
          [] prompt = "login" ->
                first
                \o (IF env.link THEN Shots(<<"click_login">>) ELSE <<>>)
                \o fills \o CaptchaOps(env)
                \o (IF env.submit
                    THEN Shots(<<"submit_login">>) \o last ELSE <<>>)
          [] prompt = "search" ->
                first
                \o (IF env.submit
                    THEN Shots(<<"fill_search", "submit_search">>) \o last
                    ELSE <<>>)
          [] prompt = "click" ->
                Shots(<<"custom_prompt">>) \o first
                \o (IF env.submit
                    THEN last \o Shots(<<"click_element">>) ELSE <<>>)
          [] prompt = "scroll" ->
                Shots(<<"custom_prompt">>) \o first \o last
                \o Shots(<<"scroll_page">>)
          [] prompt = "other" -> Shots(<<"custom_prompt">>)

ErrorAction(prompt) ==
    CASE prompt = "register" -> "registration_error"
      [] prompt = "login" -> "login_error"
      [] prompt = "search" -> "search_error"
      [] OTHER -> "custom_prompt_error"

RECURSIVE HandleFrom(_, _, _, _, _, _)
HandleFrom(ops, i, counter, steps, prompt, env) ==
    \* a handler from its i-th statement on; its except clause ends it with
    \* a failed step
    IF i > Len(ops) THEN [counter |-> counter, steps |-> steps]
    ELSE IF ops[i].op = "shot"
    THEN LET s == _take_screenshot_step(counter, ops[i].action, env)
         IN  HandleFrom(ops, i + 1, s.counter, Append(steps, s.step),
                        prompt, env)
    ELSE IF ops[i].op = "failed"
    THEN HandleFrom(ops, i + 1, counter,
                    Append(steps, FailedStep(counter, ops[i].action)),
                    prompt, env)
    ELSE [counter |-> counter,
          steps |-> Append(steps, FailedStep(counter, ErrorAction(prompt)))]

\* _handle_registration, _handle_login, _handle_search, _handle_custom_prompt
_handle(prompt, counter, env) ==
    HandleFrom(HandlerOps(prompt, env), 1, counter, <<>>, prompt, env)

NavIdle ==
    /\ navPrompt = "none"
    /\ navEnv = "none"
    /\ navPc = "idle"
    /\ step_counter = 0
    /\ navSteps = <<>>
    /\ navResult = [outcome |-> "idle"]

NavInit ==
    /\ navPrompt \in PromptKinds
    /\ navEnv \in NavEnvs
    /\ navPc = "call"
    \* the navigator may have run a session before
    /\ step_counter \in 0..MaxFields
    /\ navSteps = <<>>
    /\ navResult = [outcome |-> "pending"]

----------------------------------------------------------------------------
(* The environment of a scan *)

\* the values of config.enabled_enumerators that are tried
\* (the second is the default of Config.__post_init__)
Configs == {Kinds, {"web_scanner", "dns_enumeration"}}

\* what storage.save does: it returns, or the backend's I/O raises
SaveOutcomes == {"ok", "OSError"}

Faults(kind, env) ==
    \* number of failed calls and malformed bodies in env
    CASE kind = "web_scanner" -> IF env.fail_at = "none" THEN 0 ELSE 1
      [] kind = "dns_enumeration" ->
            Cardinality({f \in {"resolve", "reverse", "dumpster"} :
                            env[f] = "fail"})
      [] kind = "security_trails" ->
            Cardinality({f \in {"domain", "subdomain", "whois", "vhosts",
                                "domains"} : env[f] \in {"fail", "array"}})
            + Cardinality(env.history)
      [] OTHER -> IF env = "ok" THEN 0 ELSE 1

----------------------------------------------------------------------------
(* core/analyzer.py *)

AnalyzeInit ==
    /\ enabled_enumerators \in Configs
    /\ security_trails_api_key \in BOOLEAN
    /\ created = [outcome |-> "idle"]
    /\ enumerators = <<>>
    /\ storage = FALSE
    /\ pc = "setup"
    /\ idx = 0
    /\ results = ScanResults("none", "none", NoTime, "pending")
    /\ now = 1
    /\ pending = "None"
    /\ raised = NoException
    /\ invoked = <<>>
    /\ saves = <<>>
    /\ end_time_writes = 0
    /\ faults = 0

\* faulty variant of is_enabled: every strategy reports itself enabled
is_enabled_Always(kind) == kind \in Kinds

is_enabled(kind) == kind \in enabled_enumerators

\* the constructors of the strategies: SecurityTrailsEnumerator refuses to be
\* constructed without an API key, the others only keep the configuration
__init__(kind, api_key) ==
    IF kind = "security_trails" /\ ~api_key
    THEN Raise("APIException")
    ELSE Return(kind)

\* the strategies the factory knows without register_enumerator
_enumerator_types == StrategyNames

\* the orders in which a configuration can list its enabled strategies
ConfigLists(S) ==
    {names \in [1..Cardinality(S) -> S] :
        \A i, j \in 1..Cardinality(S) : names[i] = names[j] => i = j}

RECURSIVE CreateFrom(_, _, _, _)
CreateFrom(names, i, api_key, acc) ==
    \* the for loop of create_enumerators from position i on
    IF i > Len(names) THEN acc
    ELSE LET enumerator_name == names[i]
             enumerator == __init__(enumerator_name, api_key)
         IN  IF enumerator_name \in _enumerator_types
             THEN IF enumerator.outcome = "return"
                  THEN IF is_enabled(enumerator.value)
                       THEN CreateFrom(names, i + 1, api_key,
                                       Append(acc, enumerator.value))
                       ELSE CreateFrom(names, i + 1, api_key, acc)
                  ELSE \* except Exception: "Failed to create ..." is printed
                       CreateFrom(names, i + 1, api_key, acc)
             ELSE \* "Unknown enumerator type" is printed
                  CreateFrom(names, i + 1, api_key, acc)

create_enumerators(names, api_key) ==
    Return(CreateFrom(names, 1, api_key, <<>>))

\* cli.py lines 26-28 (rest_api.py, grpc_server.py alike): the enumerators of
\* the factory are registered on a new analyzer
BuildEnumerators ==
    /\ pc = "setup"
    /\ created.outcome = "idle"
    /\ enumerators = <<>>
    /\ \E names \in ConfigLists(enabled_enumerators) :
          LET out == create_enumerators(names, security_trails_api_key)
          IN  /\ created' = out
              /\ enumerators' = IF out.outcome = "return"
                                THEN SelectSeq(out.value, is_enabled)
                                ELSE enumerators
    /\ UNCHANGED <<notAnalyzeVars, configVars, storage, pc, idx, results, now,
                   pending, raised, invoked, saves, end_time_writes, faults>>

add_enumerator(kind) ==
    /\ pc = "setup"
    /\ Len(enumerators) < MaxEnumerators
    \* the caller holds an enumerator: its constructor returned
    /\ __init__(kind, security_trails_api_key).outcome = "return"
    /\ enumerators' = IF is_enabled(kind) THEN Append(enumerators, kind)
                      ELSE enumerators
    /\ UNCHANGED <<notAnalyzeVars, configVars, created, storage, pc, idx, results, now,
                   pending, raised, invoked, saves, end_time_writes, faults>>

set_storage ==
    /\ pc = "setup"
    /\ storage' = TRUE
    /\ UNCHANGED <<notAnalyzeVars, configVars, created, enumerators, pc, idx, results, now,
                   pending, raised, invoked, saves, end_time_writes, faults>>

\* analyze, lines 29-36: the record is created Running
AnalyzeStart ==
    /\ pc = "setup"
    /\ results' = ScanResults("scan-1", Target, now, "running")
    /\ now' = now + 1
    /\ idx' = 1
    /\ pc' = "loop"
    /\ UNCHANGED <<notAnalyzeVars, configVars, created, enumerators, storage, pending,
                   raised, invoked, saves, end_time_writes, faults>>

\* faulty variant of AnalyzeEnumerator: without the inner try/except an
\* exception of enumerate leaves the loop and reaches the outer except clause
AnalyzeEnumerator_NoInnerHandler ==
    /\ pc = "loop"
    /\ idx <= Len(enumerators)
    /\ \E env \in Envs(enumerators[idx]) :
          LET kind == enumerators[idx]
              r == Enumerate(kind, results.target, env, now)
          IN  /\ faults + Faults(kind, env) <= MaxFaults
              /\ faults' = faults + Faults(kind, env)
              /\ IF r.outcome = "return"
                 THEN /\ results' = add_enumeration_result(results, r.value)
                      /\ now' = now + 1
                      /\ UNCHANGED <<pc, pending>>
                 ELSE /\ pc' = "except"
                      /\ pending' = r.value
                      /\ UNCHANGED <<results, now>>
              /\ invoked' = Append(invoked,
                     [index |-> idx,
                      returned |-> r.outcome = "return",
                      failed |-> IF r.outcome = "return"
                                 THEN r.value.errors # <<>> ELSE TRUE])
    /\ idx' = idx + 1
    /\ UNCHANGED <<notAnalyzeVars, configVars, created, enumerators, storage,
                   raised, saves, end_time_writes>>

\* analyze, lines 39-44: one iteration of the loop over self.enumerators
AnalyzeEnumerator ==
    /\ pc = "loop"
    /\ idx <= Len(enumerators)
    /\ \E env \in Envs(enumerators[idx]) :
          LET kind == enumerators[idx]
              r == Enumerate(kind, results.target, env, now)
          IN  /\ faults + Faults(kind, env) <= MaxFaults
              /\ faults' = faults + Faults(kind, env)
              /\ IF r.outcome = "return"
                 THEN /\ results' = add_enumeration_result(results, r.value)
                      /\ now' = now + 1
                 ELSE \* except Exception: the error is printed
                      UNCHANGED <<results, now>>
              /\ invoked' = Append(invoked,
                     [index |-> idx,
                      returned |-> r.outcome = "return",
                      failed |-> IF r.outcome = "return"
                                 THEN r.value.errors # <<>> ELSE TRUE])
    /\ idx' = idx + 1
    /\ UNCHANGED <<notAnalyzeVars, configVars, created, enumerators, storage, pc, pending,
                   raised, saves, end_time_writes>>

\* analyze, lines 46-48 (and 50, 60): merge, then the record is Completed
AnalyzeComplete ==
    /\ pc = "loop"
    /\ idx > Len(enumerators)
    /\ LET m == merge_results(results)
       IN  IF m.exc = "None"
           THEN /\ results' = [m.r EXCEPT !.status = "completed",
                                          !.end_time = now]
                /\ now' = now + 1
                /\ end_time_writes' = end_time_writes + 1
                /\ pc' = IF storage THEN "save" ELSE "returned"
                /\ UNCHANGED pending
           ELSE /\ results' = m.r
                /\ pending' = m.exc
                /\ pc' = "except"
                /\ UNCHANGED <<now, end_time_writes>>
    /\ UNCHANGED <<notAnalyzeVars, configVars, created, enumerators, storage, idx, raised,
                   invoked, saves, faults>>

\* analyze, lines 50-51 (and 60): the save inside the try block
AnalyzeSave ==
    /\ pc = "save"
    /\ \E o \in SaveOutcomes :
          /\ saves' = Append(saves, [status |-> results.status,
                                     end_time |-> results.end_time,
                                     outcome |-> o])
          /\ IF o = "ok"
             THEN pc' = "returned" /\ UNCHANGED pending
             ELSE pc' = "except" /\ pending' = o
    /\ UNCHANGED <<notAnalyzeVars, configVars, created, enumerators, storage, idx, results,
                   now, raised, invoked, end_time_writes, faults>>

\* faulty variant of AnalyzeExcept: the record is marked Failed and its
\* end_time is left as it was
AnalyzeExcept_NoEndTime ==
    /\ pc = "except"
    /\ results' = [results EXCEPT !.status = "failed"]
    /\ IF storage
       THEN pc' = "except_save" /\ UNCHANGED raised
       ELSE /\ pc' = "raised"
            /\ raised' = [cls |-> "SiteAnalyzerException",
                          msg |-> "Analysis failed", cause |-> pending]
    /\ UNCHANGED <<notAnalyzeVars, configVars, created, enumerators, storage, idx,
                   pending, invoked, saves, faults, now, end_time_writes>>

\* analyze, lines 53-56 (and 58): the outer except clause marks the record
AnalyzeExcept ==
    /\ pc = "except"
    /\ results' = [results EXCEPT !.status = "failed", !.end_time = now]
    /\ now' = now + 1
    /\ end_time_writes' = end_time_writes + 1
    /\ IF storage
       THEN pc' = "except_save" /\ UNCHANGED raised
       ELSE /\ pc' = "raised"
            /\ raised' = [cls |-> "SiteAnalyzerException",
                          msg |-> "Analysis failed", cause |-> pending]
    /\ UNCHANGED <<notAnalyzeVars, configVars, created, enumerators, storage, idx, pending,
                   invoked, saves, faults>>

\* analyze, lines 56-58: the save inside the except clause, then the raise
AnalyzeExceptSave ==
    /\ pc = "except_save"
    /\ \E o \in SaveOutcomes :
          /\ saves' = Append(saves, [status |-> results.status,
                                     end_time |-> results.end_time,
                                     outcome |-> o])
          /\ raised' = IF o = "ok"
                       THEN [cls |-> "SiteAnalyzerException",
                             msg |-> "Analysis failed", cause |-> pending]
                       ELSE \* the exception of save leaves analyze as it is
                            [cls |-> o, msg |-> "save failed",
                             cause |-> pending]
    /\ pc' = "raised"
    /\ UNCHANGED <<notAnalyzeVars, configVars, created, enumerators, storage, idx, results,
                   now, pending, invoked, end_time_writes, faults>>

EnumIdle ==
    /\ enumKind = "none"
    /\ enumEnv = "none"
    /\ enumResult = [outcome |-> "idle"]

AnalyzeNext ==
    \/ \E kind \in Kinds : add_enumerator(kind)
    \/ BuildEnumerators
    \/ set_storage
    \/ AnalyzeStart
    \/ AnalyzeEnumerator
    \/ AnalyzeComplete
    \/ AnalyzeSave
    \/ AnalyzeExcept
    \/ AnalyzeExceptSave

AnalyzeSpecInit ==
    /\ AnalyzeInit
    /\ EnumIdle
    /\ MergeInit
    /\ ScoreIdle
    /\ DomIdle
    /\ JsIdle
    /\ DetectIdle
    /\ StoreIdle
    /\ ConcIdle
    /\ NavIdle

AnalyzeSpec == AnalyzeSpecInit /\ [][AnalyzeNext]_vars

----------------------------------------------------------------------------
(* One call of enumerate on each strategy, for every environment *)

EnumInit ==
    /\ enumKind \in StrategyNames
    /\ enumEnv \in Envs(enumKind)
    /\ enumResult = [outcome |-> "pending"]

WebScannerCall ==
    /\ enumKind = "web_scanner"
    /\ enumResult.outcome = "pending"
    /\ enumResult' = WebScannerEnumerate(Target, enumEnv, 1)
    /\ UNCHANGED <<notEnumVars, enumKind, enumEnv>>

DNSCall ==
    /\ enumKind = "dns_enumeration"
    /\ enumResult.outcome = "pending"
    /\ enumResult' = DNSEnumerate(Target, enumEnv, 1)
    /\ UNCHANGED <<notEnumVars, enumKind, enumEnv>>

\* SecurityTrailsEnumerator(config).enumerate(target): when the constructor
\* raises there is no enumerator to call
SecurityTrailsCall ==
    /\ enumKind = "security_trails"
    /\ enumResult.outcome = "pending"
    /\ LET enumerator == __init__(enumKind, security_trails_api_key)
       IN  enumResult' = IF enumerator.outcome = "raise"
                         THEN [outcome |-> "not_constructed",
                               value |-> enumerator.value]
                         ELSE SecurityTrailsEnumerate(Target, enumEnv, 1)
    /\ UNCHANGED <<notEnumVars, enumKind, enumEnv>>

EnumNext == WebScannerCall \/ DNSCall \/ SecurityTrailsCall

EnumSpecInit ==
    /\ AnalyzeInit
    /\ enabled_enumerators = Kinds
    /\ EnumInit
    /\ MergeInit
    /\ ScoreIdle
    /\ DomIdle
    /\ JsIdle
    /\ DetectIdle
    /\ StoreIdle
    /\ ConcIdle
    /\ NavIdle

EnumSpec == EnumSpecInit /\ [][EnumNext]_vars

----------------------------------------------------------------------------
(* Outcomes added to one ScanResults and merged, in any interleaving *)

\* results.add_enumeration_result(result)
MergeAdd ==
    /\ Len(mergeRecord.enumeration_results) < MaxOutcomes
    /\ \E result \in MergeOutcomes :
          mergeRecord' = add_enumeration_result(mergeRecord, result)
    /\ mergeCalls' = 0
    /\ UNCHANGED <<notMergeVars, mergeExc>>

\* results.merge_results()
MergeCall ==
    /\ mergeCalls < MaxMergeCalls
    /\ LET m == merge_results(mergeRecord)
       IN  /\ mergeRecord' = m.r
           /\ mergeExc' = m.exc
    /\ mergeCalls' = mergeCalls + 1
    /\ UNCHANGED notMergeVars

MergeNext == MergeAdd \/ MergeCall

MergeSpecInit ==
    /\ AnalyzeInit
    /\ enabled_enumerators = Kinds
    /\ security_trails_api_key
    /\ EnumIdle
    /\ MergeInit
    /\ ScoreIdle
    /\ DomIdle
    /\ JsIdle
    /\ DetectIdle
    /\ StoreIdle
    /\ ConcIdle
    /\ NavIdle

MergeSpec == MergeSpecInit /\ [][MergeNext]_vars

----------------------------------------------------------------------------
(* One call of get_security_score, for every list of matches *)

GetSecurityScore ==
    /\ scoreResult.outcome = "pending"
    /\ scoreResult' = get_security_score(scoreMatches)
    /\ UNCHANGED <<notScoreVars, scoreMatches>>

ScoreNext == GetSecurityScore

ScoreSpecInit ==
    /\ AnalyzeInit
    /\ enabled_enumerators = Kinds
    /\ security_trails_api_key
    /\ EnumIdle
    /\ MergeInit
    /\ ScoreInit
    /\ DomIdle
    /\ JsIdle
    /\ DetectIdle
    /\ StoreIdle
    /\ ConcIdle
    /\ NavIdle

ScoreSpec == ScoreSpecInit /\ [][ScoreNext]_vars

----------------------------------------------------------------------------
(* One call of analyze_content, for every list of pattern definitions *)

AnalyzeContent ==
    /\ domResult.outcome = "pending"
    /\ domResult' = analyze_content(domPatterns, "rich", "None")
    /\ UNCHANGED <<notDomVars, domPatterns>>

DomNext == AnalyzeContent

DomSpecInit ==
    /\ AnalyzeInit
    /\ enabled_enumerators = Kinds
    /\ security_trails_api_key
    /\ EnumIdle
    /\ MergeInit
    /\ ScoreIdle
    /\ DomInit
    /\ JsIdle
    /\ DetectIdle
    /\ StoreIdle
    /\ ConcIdle
    /\ NavIdle

DomSpec == DomSpecInit /\ [][DomNext]_vars

----------------------------------------------------------------------------
(* One call of analyze_js_results, for every mapping of script results *)

AnalyzeJsResults ==
    /\ jsOut.outcome = "pending"
    /\ jsOut' = analyze_js_results(jsPatterns, jsResults)
    /\ UNCHANGED <<notJsVars, jsPatterns, jsResults>>

JsNext == AnalyzeJsResults

JsSpecInit ==
    /\ AnalyzeInit
    /\ enabled_enumerators = Kinds
    /\ security_trails_api_key
    /\ EnumIdle
    /\ MergeInit
    /\ ScoreIdle
    /\ DomIdle
    /\ JsInit
    /\ DetectIdle
    /\ StoreIdle
    /\ ConcIdle
    /\ NavIdle

JsSpec == JsSpecInit /\ [][JsNext]_vars

----------------------------------------------------------------------------
(* One call of detect_frameworks, for every input and plugin order *)

DetectFrameworks ==
    /\ detOut.outcome = "pending"
    /\ detOut' = detect_frameworks(detPlugins, detInput)
    /\ UNCHANGED <<notDetVars, detPlugins, detInput>>

DetectNext == DetectFrameworks

DetectSpecInit ==
    /\ AnalyzeInit
    /\ enabled_enumerators = Kinds
    /\ security_trails_api_key
    /\ EnumIdle
    /\ MergeInit
    /\ ScoreIdle
    /\ DomIdle
    /\ JsIdle
    /\ DetectInit
    /\ StoreIdle
    /\ ConcIdle
    /\ NavIdle

DetectSpec == DetectSpecInit /\ [][DetectNext]_vars

----------------------------------------------------------------------------
(* Calls of save, load, list_scans and delete on one storage backend *)

Save ==
    \E result \in StoredRecords :
        LET call == save(stBackend, stStore, result)
        IN  /\ stStore' = call.store
            /\ stSaved' = [stSaved EXCEPT ![result.scan_id] = result]
            /\ stOut' = [op |-> "save", scan_id |-> result.scan_id,
                         result |-> call.out]
            /\ UNCHANGED <<notStVars, stBackend>>

Load ==
    \E scan_id \in StoredIds :
        /\ stOut' = [op |-> "load", scan_id |-> scan_id,
                     result |-> load(stBackend, stStore, scan_id)]
        /\ UNCHANGED <<notStVars, stBackend, stStore, stSaved>>

ListScans ==
    \E limit \in Limits :
        /\ \E scans \in list_scans(stBackend, stStore, limit) :
              stOut' = [op |-> "list_scans", scan_id |-> "None",
                        result |-> Return(scans)]
        /\ UNCHANGED <<notStVars, stBackend, stStore, stSaved>>

Delete ==
    \E scan_id \in StoredIds :
        LET call == delete(stBackend, stStore, scan_id)
        IN  /\ stStore' = call.store
            /\ stSaved' = [stSaved EXCEPT ![scan_id] = NoRecord]
            /\ stOut' = [op |-> "delete", scan_id |-> scan_id,
                         result |-> call.out]
            /\ UNCHANGED <<notStVars, stBackend>>

StoreNext ==
    \/ Save
    \/ Load
    \/ ListScans
    \/ Delete

StoreSpecInit ==
    /\ AnalyzeInit
    /\ enabled_enumerators = Kinds
    /\ security_trails_api_key
    /\ EnumIdle
    /\ MergeInit
    /\ ScoreIdle
    /\ DomIdle
    /\ JsIdle
    /\ DetectIdle
    /\ StoreInit
    /\ ConcIdle
    /\ NavIdle

StoreSpec == StoreSpecInit /\ [][StoreNext]_vars

----------------------------------------------------------------------------
(* Worker threads of the gRPC server inside analyze, interleaved *)

\* analyze, lines 29-36, in the thread of one request
CallStart(c) ==
    /\ ccPc[c] = "request"
    /\ ccResults' = [ccResults EXCEPT ![ResultsCell(c)] =
                        ScanResults(uuid4(c), ccTarget[c], CallInstant,
                                    "running")]
    /\ ccOverlap' = IF \E d \in Calls \ {c} : ccPc[d] = "loop"
                    THEN ccOverlap \cup {c}
                            \cup {d \in Calls \ {c} : ccPc[d] = "loop"}
                    ELSE ccOverlap
    /\ ccIdx' = [ccIdx EXCEPT ![c] = 1]
    /\ ccPc' = [ccPc EXCEPT ![c] = "loop"]
    /\ UNCHANGED <<notCcVars, ccTarget, ccOwn, ccStore, ccReturned>>

\* analyze, lines 39-44: one iteration of the loop over self.enumerators;
\* enumerate works on data local to the invocation
CallEnumerator(c) ==
    /\ ccPc[c] = "loop"
    /\ ccIdx[c] <= Len(SharedEnumerators)
    /\ \E env \in CallEnvs(SharedEnumerators[ccIdx[c]]) :
          LET r == Enumerate(SharedEnumerators[ccIdx[c]], ccTarget[c], env,
                             CallInstant)
          IN  IF r.outcome = "return"
              THEN /\ ccResults' = [ccResults EXCEPT ![ResultsCell(c)] =
                          add_enumeration_result(@, r.value)]
                   /\ ccOwn' = [ccOwn EXCEPT ![c] = Append(@, r.value)]
              ELSE \* except Exception: the error is printed
                   UNCHANGED <<ccResults, ccOwn>>
    /\ ccIdx' = [ccIdx EXCEPT ![c] = @ + 1]
    /\ UNCHANGED <<notCcVars, ccTarget, ccPc, ccStore, ccReturned,
                   ccOverlap>>

\* analyze, lines 46-51 and 60: merge, Completed, save, return; the backend
\* keeps the record under its scan_id
CallComplete(c) ==
    /\ ccPc[c] = "loop"
    /\ ccIdx[c] > Len(SharedEnumerators)
    /\ LET m == merge_results(ccResults[ResultsCell(c)])
           done == [m.r EXCEPT !.status = "completed", !.end_time = CallInstant]
       IN  /\ m.exc = "None"
           /\ ccResults' = [ccResults EXCEPT ![ResultsCell(c)] = done]
           /\ ccStore' = {r \in ccStore : r.scan_id # done.scan_id}
                            \cup {done}
           /\ ccReturned' = [ccReturned EXCEPT ![c] = done]
    /\ ccPc' = [ccPc EXCEPT ![c] = "returned"]
    /\ UNCHANGED <<notCcVars, ccTarget, ccIdx, ccOwn, ccOverlap>>

CallStartAny == \E c \in Calls : CallStart(c)
CallEnumeratorAny == \E c \in Calls : CallEnumerator(c)
CallCompleteAny == \E c \in Calls : CallComplete(c)

ConcNext ==
    \/ CallStartAny
    \/ CallEnumeratorAny
    \/ CallCompleteAny

ConcSpecInit ==
    /\ AnalyzeInit
    /\ enabled_enumerators = Kinds
    /\ security_trails_api_key
    /\ EnumIdle
    /\ MergeInit
    /\ ScoreIdle
    /\ DomIdle
    /\ JsIdle
    /\ DetectIdle
    /\ StoreIdle
    /\ ConcInit
    /\ NavIdle

ConcSpec == ConcSpecInit /\ [][ConcNext]_vars

----------------------------------------------------------------------------
(* One session of navigate_with_prompt *)

\* lines 98-121: the counter is reset and the first screenshot is taken
NavigateStart ==
    /\ navPc = "call"
    /\ LET s == _take_screenshot_step(0, "navigate_to_url", navEnv)
       IN  /\ step_counter' = s.counter
           /\ navSteps' = <<s.step>>
    /\ navPc' = "goto"
    /\ UNCHANGED <<notNavVars, navPrompt, navEnv, navResult>>

\* lines 123-128: page.goto, then the screenshot of the loaded page
NavigateGoto ==
    /\ navPc = "goto"
    /\ IF navEnv.raises = "goto"
       THEN /\ navPc' = "except"
            /\ UNCHANGED <<step_counter, navSteps>>
       ELSE LET s == _take_screenshot_step(step_counter, "page_loaded",
                                           navEnv)
            IN  /\ step_counter' = s.counter
                /\ navSteps' = Append(navSteps, s.step)
                /\ navPc' = "handle"
    /\ UNCHANGED <<notNavVars, navPrompt, navEnv, navResult>>

\* lines 130-149: the handler of the prompt, then the last screenshot
NavigateHandle ==
    /\ navPc = "handle"
    /\ LET h == _handle(navPrompt, step_counter, navEnv)
           s == _take_screenshot_step(h.counter, "navigation_complete",
                                      navEnv)
       IN  /\ step_counter' = s.counter
           /\ navSteps' = Append(navSteps \o h.steps, s.step)
    /\ navPc' = "close"
    /\ UNCHANGED <<notNavVars, navPrompt, navEnv, navResult>>

\* lines 151-160: the except clause of navigate_with_prompt
NavigateExcept ==
    /\ navPc = "except"
    /\ navSteps' = Append(navSteps, FailedStep(step_counter, "error"))
    /\ navPc' = "close"
    /\ UNCHANGED <<notNavVars, navPrompt, navEnv, step_counter, navResult>>

\* lines 162-183: the browser is closed and the result is returned
NavigateReturn ==
    /\ navPc = "close"
    /\ navResult' = Return([total_steps |-> Len(navSteps),
                            successful_steps |->
                                Cardinality({i \in DOMAIN navSteps :
                                                navSteps[i].success}),
                            steps |-> navSteps])
    /\ navPc' = "returned"
    /\ UNCHANGED <<notNavVars, navPrompt, navEnv, step_counter, navSteps>>

NavNext ==
    \/ NavigateStart
    \/ NavigateGoto
    \/ NavigateHandle
    \/ NavigateExcept
    \/ NavigateReturn

NavSpecInit ==
    /\ AnalyzeInit
    /\ enabled_enumerators = Kinds
    /\ security_trails_api_key
    /\ EnumIdle
    /\ MergeInit
    /\ ScoreIdle
    /\ DomIdle
    /\ JsIdle
    /\ DetectIdle
    /\ StoreIdle
    /\ ConcIdle
    /\ NavInit

NavSpec == NavSpecInit /\ [][NavNext]_vars

----------------------------------------------------------------------------
(* Properties of SiteAnalyzer.analyze *)

Terminal == {"completed", "failed"}
Finished == pc \in {"returned", "raised"}
LoopDone == pc \in {"save", "returned", "except", "except_save", "raised"}

StatusRank(st) ==
    CASE st = "pending" -> 0
      [] st = "running" -> 1
      [] OTHER -> 2

\* C1: the status of the record only moves forward (Pending to Running,
\* Running to Completed or Failed) and a terminal status never changes,
\* whatever the enumerators and storage.save do.
C1_StatusOnlyMovesForward ==
    [][/\ StatusRank(results'.status) >= StatusRank(results.status)
       /\ results.status \in Terminal => results'.status = results.status]_vars

\* C2: end_time is assigned exactly once, at the transition to a terminal
\* status, and is never reassigned afterwards.
C2_EndTimeAssignedOnce ==
    [][/\ results.end_time # NoTime => results'.end_time = results.end_time
       /\ end_time_writes' # end_time_writes =>
             /\ results.status \notin Terminal
             /\ results'.status \in Terminal
             /\ end_time_writes' = 1]_vars

EndTimeMatchesStatus(rec) ==
    (rec.end_time = NoTime) <=> (rec.status \in {"pending", "running"})

\* C3: every record passed to storage.save or returned by analyze has
\* end_time null if and only if its status is Pending or Running.
C3_EndTimeNullIffNotTerminal ==
    /\ \A i \in DOMAIN saves : EndTimeMatchesStatus(saves[i])
    /\ pc = "returned" => EndTimeMatchesStatus(results)

\* C3 witness: a merge failure made analyze save a record it marked Failed.
C3_Witness ==
    /\ pc = "raised"
    /\ Len(saves) = 1
    /\ saves[1].status = "failed"
    /\ saves[1].end_time # NoTime

ReturnedCalls == SelectSeq(invoked, LAMBDA e : e.returned)

\* C4: every registered enumerator is invoked exactly once, in registration
\* order, also after an earlier one raised, and the recorded outcomes are in
\* execution order.
C4_EveryEnumeratorRunsInOrder ==
    /\ \A i \in DOMAIN invoked : invoked[i].index = i
    /\ Len(invoked) <= Len(enumerators)
    /\ LoopDone => Len(invoked) = Len(enumerators)
    /\ pc # "setup" =>
          /\ Len(results.enumeration_results) = Len(ReturnedCalls)
          /\ \A i \in DOMAIN results.enumeration_results :
                /\ results.enumeration_results[i].enumerator_name
                      = enumerators[ReturnedCalls[i].index]
                /\ \A j \in DOMAIN results.enumeration_results :
                      i < j => results.enumeration_results[i].timestamp
                                 < results.enumeration_results[j].timestamp

\* C4 witness: the first of two enumerators raised and the second still ran
\* and was recorded.
C4_Witness ==
    /\ pc = "returned"
    /\ Len(enumerators) = 2
    /\ Len(invoked) = 2
    /\ ~invoked[1].returned
    /\ invoked[2].returned
    /\ Len(results.enumeration_results) = 1

\* C5: the returned record contains an outcome of every enumerator that was
\* invoked; one that threw is represented by an outcome with a non-empty
\* error list, never by a missing outcome.
C5_EveryInvokedEnumeratorHasOutcome ==
    pc = "returned" =>
        /\ Len(results.enumeration_results) = Len(invoked)
        /\ \A i \in DOMAIN invoked :
              /\ results.enumeration_results[i].enumerator_name
                    = enumerators[invoked[i].index]
              /\ ~invoked[i].returned =>
                    results.enumeration_results[i].errors # <<>>

----------------------------------------------------------------------------
(* Properties of the enumerate methods *)

FailedSubOperations(kind, env) ==
    \* number of calls made for env that raised
    CASE kind = "web_scanner" -> IF env.fail_at = "none" THEN 0 ELSE 1
      [] kind = "dns_enumeration" ->
            Cardinality({f \in {"resolve", "reverse", "dumpster"} :
                            env[f] = "fail"})
      [] OTHER ->
            Cardinality({f \in {"domain", "subdomain", "whois", "vhosts",
                                "domains"} : env[f] = "fail"})
            + Cardinality(env.history)

GatheredDataPresent(kind, env, data) ==
    \* what the calls that returned have gathered is in the payload
    CASE kind = "web_scanner" ->
            env.fail_at \in {"none", "dom_patterns", "close"} =>
                LET x == Extracted(env.page)
                IN  /\ Range(data.emails) = x.emails
                    /\ Range(data.urls) = x.urls
                    /\ Range(data.endpoints) = x.endpoints
                    /\ Range(data.keywords) = x.keywords
                    /\ Range(data.sourcemap_matches) = x.sourcemap_matches
                    /\ Range(data.js_paths) = x.js_paths
      [] kind = "dns_enumeration" ->
            /\ env.resolve = "ok" => data.dns_records.a = <<"1.2.3.4">>
            /\ env.reverse = "ok" =>
                  data.dns_records.hostname = "host.example.com"
            /\ env.dumpster = "ok" =>
                  data.subdomains = <<"www.example.com">>
      [] OTHER ->
            /\ env.domain = "object" =>
                  /\ HasKey(data.domain_info, "current_dns")
                  /\ data.ip_addresses = <<"1.2.3.4">>
            /\ env.domain = "array" => data.domain_info.json = "array"
            /\ env.subdomain = "object" =>
                  data.subdomains = <<"www.example.com", "api.example.com">>
            /\ env.whois = "object" => HasKey(data.whois_data, "registrar")
            /\ env.whois = "array" => data.whois_data.json = "array"
            /\ \A i \in DOMAIN HistoryTypes :
                  HistoryTypes[i] \notin env.history =>
                      HistoryTypes[i] \in DOMAIN data.historical_dns
            /\ env.vhosts = "object" =>
                  "vhost.example.com" \in Range(data.virtual_hosts)
            /\ env.domains = "object" =>
                  "other.example.com" \in Range(data.virtual_hosts)

\* C6: enumerate of WebScannerEnumerator, DNSEnumerator and
\* SecurityTrailsEnumerator always returns an EnumerationResult and never
\* raises; every failed sub-operation adds an entry to errors, and the data
\* gathered by the sub-operations that succeeded is in the returned payload.
C6_EnumerateRecordsFailuresKeepsData ==
    enumResult.outcome \in {"return", "raise"} =>
        /\ enumResult.outcome = "return"
        /\ Len(enumResult.value.errors)
              >= FailedSubOperations(enumKind, enumEnv)
        /\ GatheredDataPresent(enumKind, enumEnv, enumResult.value.data)

----------------------------------------------------------------------------
(* Properties of SiteAnalyzer.analyze, continued *)

AllSavesOk == \A i \in DOMAIN saves : saves[i].outcome = "ok"

\* the registered strategies are dns_enumeration and web_scanner, the first
\* returned an outcome with errors and the second one without
DnsFailedWebSucceeded ==
    /\ Len(enumerators) = 2
    /\ Len(invoked) = 2
    /\ \E i, j \in DOMAIN enumerators :
          /\ enumerators[i] = "dns_enumeration"
          /\ invoked[i].returned /\ invoked[i].failed
          /\ enumerators[j] = "web_scanner"
          /\ invoked[j].returned /\ ~invoked[j].failed

OutcomesOf(name) ==
    {i \in DOMAIN results.enumeration_results :
        results.enumeration_results[i].enumerator_name = name}

ReportsCompleted == pc = "returned" /\ results.status = "completed"

\* C8: a strategy failure affects the overall result only when all
\* strategies fail: with at least one enumerator completing without failure
\* analyze reports Completed, and with every registered enumerator failing
\* it does not report Completed.
C8_AllStrategiesFailNotCompleted ==
    (Finished /\ enumerators # <<>>) =>
        /\ (\E i \in DOMAIN invoked : ~invoked[i].failed) => ReportsCompleted
        /\ (\A i \in DOMAIN invoked : invoked[i].failed) => ~ReportsCompleted

\* C9: an error outside the per-enumerator handlers (in merge_results or in
\* storage.save) marks the record Failed, a save of the partial record is
\* attempted, and a SiteAnalyzerException is raised to the caller, also
\* when that save attempt itself fails.
C9_OrchestrationErrorRaisesSiteAnalyzerException ==
    pc = "raised" =>
        /\ results.status = "failed"
        /\ storage => /\ saves # <<>>
                      /\ saves[Len(saves)].status = "failed"
        /\ raised.cls \in SiteAnalyzerExceptions

\* C10: a failure of storage.save after all enumerators ran and the merge
\* succeeded is surfaced as a persistence failure distinct from an
\* execution failure: the status stays Completed and the error raised is
\* not the "Analysis failed" SiteAnalyzerException.
C10_SaveFailureIsNotExecutionFailure ==
    (/\ pc = "raised"
     /\ saves # <<>>
     /\ saves[1].status = "completed"
     /\ saves[1].outcome # "ok") =>
        /\ results.status = "completed"
        /\ ~(raised.cls = "SiteAnalyzerException"
               /\ raised.msg = "Analysis failed")

----------------------------------------------------------------------------
(* Which strategies take part in a scan *)

\* the strategies the configuration excludes: not enabled, or SecurityTrails
\* without an API key
Excluded ==
    {kind \in Kinds :
        \/ kind \notin enabled_enumerators
        \/ kind = "security_trails" /\ ~security_trails_api_key}

NamesIn(rec) ==
    {rec.enumeration_results[i].enumerator_name :
        i \in DOMAIN rec.enumeration_results}

\* C11: a strategy that is not enabled, or whose required configuration is
\* missing (SecurityTrails without an API key), is never in the analyzer's
\* enumerator list, its enumerate is never called, no outcome with its name
\* is in the scan record, and building the enumerators raises no error to
\* the caller.
C11_ExcludedStrategyNeverRuns ==
    /\ Range(enumerators) \cap Excluded = {}
    /\ \A i \in DOMAIN invoked : enumerators[invoked[i].index] \notin Excluded
    /\ NamesIn(results) \cap Excluded = {}
    /\ created.outcome # "raise"

\* a scan built by the factory finished although SecurityTrails was enabled
\* without an API key, and the other strategies ran
C11_Witness ==
    /\ created.outcome = "return"
    /\ "security_trails" \in enabled_enumerators
    /\ ~security_trails_api_key
    /\ Len(created.value) = 2
    /\ Len(results.enumeration_results) = 2
    /\ pc = "returned"

\* C12: with security_trails_api_key unset a SecurityTrailsEnumerator can be
\* constructed and its enumerate returns an unsuccessful outcome (one with
\* errors) whose first error is "SecurityTrails API key not configured"; nothing is raised.
C12_NoApiKeyIsReportedInErrors ==
    (enumKind = "security_trails" /\ ~security_trails_api_key
         /\ enumResult.outcome # "pending") =>
        /\ enumResult.outcome = "return"
        /\ enumResult.value.errors # <<>>
        /\ enumResult.value.errors[1] = "SecurityTrails API key not configured"

----------------------------------------------------------------------------
(* Properties of ScanResults.merge_results *)

WebFields == {"emails", "urls", "endpoints", "keywords", "sourcemap_matches",
              "js_paths"}
ConsolidatedFields ==
    WebFields \cup {"subdomains", "dns_records", "historical_dns",
                    "whois_data", "domain_info", "ip_addresses",
                    "virtual_hosts"}

Consolidated(r) == [f \in ConsolidatedFields |-> r[f]]

\* C13: a merge_results call that follows another one, with no outcome added
\* in between, leaves every consolidated set and map as it was.
C13_MergeTwiceChangesNothing ==
    [][(mergeCalls >= 1 /\ mergeCalls' = mergeCalls + 1)
          => Consolidated(mergeRecord') = Consolidated(mergeRecord)]_vars

\* merge_results ran twice on a record of several outcomes with data
C13_Witness ==
    /\ mergeCalls = 2
    /\ Len(mergeRecord.enumeration_results) >= 2
    /\ Cardinality(mergeRecord.emails) >= 2
    /\ Cardinality(mergeRecord.subdomains) >= 2

\* the values of one payload field over the outcomes of the given strategies
PayloadUnion(r, names, key) ==
    UNION {Range(DictGet(r.enumeration_results[i].data, key, <<>>)) :
              i \in {j \in DOMAIN r.enumeration_results :
                        r.enumeration_results[j].enumerator_name \in names}}

\* C14: after merge_results returned, each consolidated set is the union of
\* the corresponding payload field over the outcomes of the mapped strategy:
\* the six web fields from web_scanner, subdomains from dns_enumeration and
\* security_trails, ip_addresses and virtual_hosts from security_trails;
\* a value that occurs several times is in the set once.
C14_ConsolidatedSetsAreUnions ==
    (mergeCalls >= 1 /\ mergeExc = "None") =>
        /\ \A f \in WebFields :
              mergeRecord[f] = PayloadUnion(mergeRecord, {"web_scanner"}, f)
        /\ mergeRecord.subdomains =
              PayloadUnion(mergeRecord,
                           {"dns_enumeration", "security_trails"},
                           "subdomains")
        /\ \A f \in {"ip_addresses", "virtual_hosts"} :
              mergeRecord[f] =
                  PayloadUnion(mergeRecord, {"security_trails"}, f)

OutcomesWith(names, key, value) ==
    {i \in DOMAIN mergeRecord.enumeration_results :
        /\ mergeRecord.enumeration_results[i].enumerator_name \in names
        /\ value \in Range(DictGet(mergeRecord.enumeration_results[i].data,
                                    key, <<>>))}

\* a merge returned on a record where one subdomain occurs twice in an
\* outcome of dns_enumeration and again in one of security_trails, next to
\* an outcome of web_scanner
C14_Witness ==
    /\ mergeCalls >= 1
    /\ mergeExc = "None"
    /\ \E i \in OutcomesWith({"dns_enumeration"}, "subdomains",
                              "www.example.com") :
          LET subs == mergeRecord.enumeration_results[i].data.subdomains
          IN  Len(subs) > Cardinality(Range(subs))
    /\ OutcomesWith({"security_trails"}, "subdomains", "www.example.com") # {}
    /\ OutcomesWith({"web_scanner"}, "emails", "a@b.com") # {}
    /\ "www.example.com" \in mergeRecord.subdomains
    /\ "a@b.com" \in mergeRecord.emails

\* the record with the outcomes of unknown strategies left out and nothing
\* merged yet
KnownOnly(r) ==
    [ScanResults(r.scan_id, r.target, r.start_time, r.status) EXCEPT
        !.enumeration_results =
            SelectSeq(r.enumeration_results,
                      LAMBDA o : o.enumerator_name \in StrategyNames)]

\* C15: an outcome whose enumerator_name is none of the three known
\* strategies makes merge_results raise nothing and contributes nothing: the
\* consolidated fields and the exception are those of the record without
\* such outcomes.
C15_UnknownStrategyContributesNothing ==
    mergeCalls >= 1 =>
        LET m == merge_results(KnownOnly(mergeRecord))
        IN  /\ Consolidated(mergeRecord) = Consolidated(m.r)
            /\ mergeExc = m.exc

\* a merge returned on a record that holds an outcome of an unknown strategy
\* next to one of a known strategy
C15_Witness ==
    /\ mergeCalls >= 1
    /\ mergeExc = "None"
    /\ \E i \in DOMAIN mergeRecord.enumeration_results :
          mergeRecord.enumeration_results[i].enumerator_name \notin StrategyNames
    /\ mergeRecord.emails # {}
    /\ mergeRecord.subdomains # {}

----------------------------------------------------------------------------
(* Properties of DOMPatternAnalyzer.get_security_score *)

KnownSeverities == {"high", "medium", "info"}

\* get_security_score was called on matches of severity high, medium or info
ScoredKnown ==
    /\ scoreResult.outcome \in {"return", "raise"}
    /\ \A i \in DOMAIN scoreMatches :
          scoreMatches[i].severity \in KnownSeverities

\* C16: for every list of matches of severity high, medium or info with
\* counts of at least 1, the empty list included, get_security_score
\* returns a normalized_score between 0 and 100, and 0 for the empty list.
C16_NormalizedScoreInRange ==
    ScoredKnown =>
        /\ scoreResult.outcome = "return"
        /\ LET score == scoreResult.value.normalized_score
           IN  /\ FracGeq(score, 0)
               /\ FracLeq(score, Frac(100, 1))
               /\ scoreMatches = <<>> => score = Frac(0, 1)

\* two matches were scored whose weighted counts exceed the largest score
\* expected of two matches: the score is capped
C16_Witness ==
    /\ ScoredKnown
    /\ Len(scoreMatches) = 2
    /\ scoreResult.value.total_score > 20
    /\ scoreResult.value.normalized_score = Frac(100, 1)

ClaimedWeight(severity) ==
    CASE severity = "high" -> 10
      [] severity = "medium" -> 5
      [] severity = "info" -> 1

RECURSIVE WeightedCount(_)
WeightedCount(matches) ==
    IF matches = <<>> THEN 0
    ELSE ClaimedWeight(Head(matches).severity) * Head(matches).count
            + WeightedCount(Tail(matches))

Min(a, b) == IF a <= b THEN a ELSE b

\* C17: total_score is the sum of weight x count over the matches (high 10,
\* medium 5, info 1) and normalized_score is
\* min(100, 100 x total_score / (10 x number of matches)); one high match of
\* count 2 has total_score 20, normalized_score 100 and risk level HIGH.
C17_ScoreFormula ==
    ScoredKnown =>
        /\ scoreResult.outcome = "return"
        /\ LET n == Len(scoreMatches)
               total == scoreResult.value.total_score
               score == scoreResult.value.normalized_score
           IN  /\ total = WeightedCount(scoreMatches)
               /\ n > 0 =>
                     score.num * (10 * n)
                        = score.den * Min(100 * (10 * n), 100 * total)
               /\ (n = 1 /\ scoreMatches[1].severity = "high"
                         /\ scoreMatches[1].count = 2) =>
                     /\ total = 20
                     /\ score = Frac(100, 1)
                     /\ scoreResult.value.risk_level = "HIGH"

\* one high match of count 2 was scored
C17_Witness ==
    /\ scoreResult.outcome = "return"
    /\ Len(scoreMatches) = 1
    /\ scoreMatches[1].severity = "high"
    /\ scoreMatches[1].count = 2

\* the same matches with other counts
Recount(matches, counts) ==
    [i \in DOMAIN matches |-> [matches[i] EXCEPT !.count = counts[i]]]

Recounts(matches) == [DOMAIN matches -> 1..MaxCount]

\* C18 as stated: two lists of matches with the same patterns and severities
\* and different counts receive the same normalized_score.
C18_CountsDoNotMoveTheScore ==
    ScoredKnown =>
        \A counts \in Recounts(scoreMatches) :
            get_security_score(Recount(scoreMatches, counts))
                    .value.normalized_score
                = scoreResult.value.normalized_score

\* C18 amended: the normalized_score depends on the counts.  Of two lists
\* with the same patterns and severities, the one whose counts are at least
\* as large has a normalized_score at least as large, and a strictly larger
\* one when a count is larger and the smaller score is below the cap of 100.
C18_LargerCountsRaiseTheScore ==
    ScoredKnown =>
        \A counts \in Recounts(scoreMatches) :
            (\A i \in DOMAIN scoreMatches :
                    counts[i] >= scoreMatches[i].count) =>
                LET score == scoreResult.value.normalized_score
                    other == get_security_score(
                                 Recount(scoreMatches, counts))
                                 .value.normalized_score
                IN  /\ FracLeq(score, other)
                    /\ (Recount(scoreMatches, counts) # scoreMatches
                            /\ ~FracGeq(score, 100)) => other # score

\* two matches were scored below the cap, one of them with a count that can
\* still grow
C18_Witness ==
    /\ ScoredKnown
    /\ Len(scoreMatches) = 2
    /\ scoreMatches[1].count < MaxCount
    /\ scoreResult.outcome = "return"
    /\ ~FracGeq(scoreResult.value.normalized_score, 100)

RiskRank(level) ==
    CASE level = "MINIMAL" -> 0
      [] level = "LOW" -> 1
      [] level = "MEDIUM" -> 2
      [] level = "HIGH" -> 3

\* C19: the risk level is HIGH iff normalized_score >= 70, MEDIUM iff
\* 40 <= normalized_score < 70, LOW iff 20 <= normalized_score < 40 and
\* MINIMAL otherwise, and it never decreases as the score increases.
C19_RiskLevelBuckets ==
    scoreResult.outcome = "return" =>
        LET score == scoreResult.value.normalized_score
            level == scoreResult.value.risk_level
        IN  /\ level = "HIGH" <=> FracGeq(score, 70)
            /\ level = "MEDIUM" <=>
                   (FracGeq(score, 40) /\ ~FracGeq(score, 70))
            /\ level = "LOW" <=>
                   (FracGeq(score, 20) /\ ~FracGeq(score, 40))
            /\ level = "MINIMAL" <=> ~FracGeq(score, 20)
            /\ \A k \in 0..100 :
                  IF FracGeq(score, k)
                  THEN RiskRank(_get_risk_level(Frac(k, 1)))
                          <= RiskRank(level)
                  ELSE RiskRank(level)
                          <= RiskRank(_get_risk_level(Frac(k, 1)))

\* a list of matches was scored exactly 40, the lowest MEDIUM score
C19_Witness ==
    /\ scoreResult.outcome = "return"
    /\ scoreResult.value.normalized_score = Frac(40, 1)
    /\ scoreResult.value.risk_level = "MEDIUM"

----------------------------------------------------------------------------
(* Properties of DOMPatternAnalyzer.analyze_content *)

\* the definition has the four keys, its regex compiles and matches
Matching(pattern) ==
    /\ PatternKeys \subseteq DOMAIN pattern
    /\ pattern.regex.valid
    /\ pattern.regex.hits > 0

MatchesOfWellFormed(patterns, source_file) ==
    LET matching == SelectSeq(patterns, Matching)
    IN  [i \in DOMAIN matching |->
            DOMPatternMatch(matching[i].name, matching[i].severity,
                            matching[i].regex.hits, source_file)]

\* C20: analyze_content never fails because of a malformed pattern
\* definition (a regex that does not compile, or a definition that lacks
\* name, description, regex or severity): the definition is skipped and the
\* matches of the other definitions are returned in definition order.
C20_MalformedPatternsAreSkipped ==
    domResult.outcome \in {"return", "raise"} =>
        domResult = Return(MatchesOfWellFormed(domPatterns, "None"))

----------------------------------------------------------------------------
(* Properties of DOMPatternAnalyzer.analyze_js_results *)

RECURSIVE MatchesOfEveryEntry(_, _, _)
MatchesOfEveryEntry(patterns, js_results, i) ==
    \* the matches of the string form of every entry from the i-th on
    IF i > Len(js_results) THEN <<>>
    ELSE analyze_content(patterns, js_results[i].content,
                         js_results[i].name).value
            \o MatchesOfEveryEntry(patterns, js_results, i + 1)

\* C21: analyze_js_results applies the pattern rules to the string form of
\* every entry of the mapping, whatever the type of its value (string,
\* object or list), and every match has file_source equal to the name of the
\* entry it came from.
C21_EveryScriptResultIsAnalysed ==
    jsOut.outcome \in {"return", "raise"} =>
        /\ jsOut = Return(MatchesOfEveryEntry(jsPatterns, jsResults, 1))
        /\ \A k \in DOMAIN jsOut.value :
              jsOut.value[k].file_source \in
                  {jsResults[i].name : i \in DOMAIN jsResults}


----------------------------------------------------------------------------
(* Framework detection *)

DblGeq(a, b) == ~DblGt(b, a)

\* C22: the sequence detect_frameworks returns is sorted by confidence, the
\* largest first, and every confidence in it is between 0 and 1.
C22_DetectionsSortedAndBounded ==
    detOut.outcome = "return" =>
        /\ \A i, j \in DOMAIN detOut.value :
              i < j => DblGeq(detOut.value[i].confidence,
                              detOut.value[j].confidence)
        /\ \A i \in DOMAIN detOut.value :
              /\ DblGeq(detOut.value[i].confidence, FloatOfTenths(0))
              /\ DblGeq(FloatOfTenths(10), detOut.value[i].confidence)

\* the sort moved a detection, and a confidence was capped at 1.0
C22_Witness ==
    /\ detOut.outcome = "return"
    /\ detOut.value # CollectFrom(detPlugins, detInput, 1, <<>>).value
    /\ \E i \in DOMAIN detOut.value :
          /\ detOut.value[i].confidence = FloatOfTenths(10)
          /\ {"react_script", "react_global", "next_data"}
                \subseteq detInput.features


\* the plugins whose detect raises on the input
Failing == {p \in PluginNames : detect(p, detInput).outcome = "raise"}

Surviving(p) == p \notin Failing

\* C23: when the detect of a plugin raises, detect_frameworks raises nothing,
\* returns what it would return were the failing plugins absent from the
\* list, and holds no detection of a failing plugin.
C23_FailingPluginIsSkipped ==
    detOut.outcome \in {"return", "raise"} =>
        /\ detOut.outcome = "return"
        /\ detOut = detect_frameworks(SelectSeq(detPlugins, Surviving),
                                      detInput)
        /\ \A i \in DOMAIN detOut.value : detOut.value[i].name \notin Failing

\* three plugins raised and the fourth detected its framework
C23_Witness ==
    /\ detOut.outcome = "return"
    /\ Failing = {"React", "Angular", "Vue.js"}
    /\ \E i \in DOMAIN detOut.value : detOut.value[i].name = "Webpack"


\* C24: what detect_frameworks returns does not depend on the order of the
\* plugin list: every permutation of the list yields the same sequence of
\* detections, also when two detections have the same confidence.
C24_PluginOrderDoesNotMatter ==
    detOut.outcome = "return" =>
        \A plugins \in PluginLists :
            detect_frameworks(plugins, detInput) = detOut


\* the sum, in tenths and without rounding, of the increments of the signals
\* of a plugin that the input fires
RECURSIVE TenthsFrom(_, _, _)
TenthsFrom(signals, input, i) ==
    IF i > Len(signals) THEN 0
    ELSE (IF signals[i].feature \in input.features
          THEN signals[i].tenths ELSE 0)
         + TenthsFrom(signals, input, i + 1)

SumTenths(plugin) == TenthsFrom(Signals(plugin), detInput, 1)

\* a float is n tenths to the precision of a float
IsTenths(x, n) ==
    LET hi == (n * (Limb \div 2)) \div 5
    IN  x.hi \in (hi - 1)..(hi + 1)

\* C27: a plugin emits a detection exactly when the sum of the increments of
\* its signals exceeds 0.3, and the confidence is then min(1, that sum); a
\* plugin whose sum is 0.3 or less returns no detection.
C27_DetectionIffSumExceedsThreshold ==
    detOut.outcome = "return" =>
        \A p \in PluginNames \ Failing :
            /\ (\E i \in DOMAIN detOut.value : detOut.value[i].name = p)
                  <=> SumTenths(p) > 3
            /\ \A i \in DOMAIN detOut.value :
                  detOut.value[i].name = p =>
                      IsTenths(detOut.value[i].confidence,
                               Min(10, SumTenths(p)))


----------------------------------------------------------------------------
(* Storage backends *)

\* C25: on each backend save replaces the whole record stored under the
\* scan_id: after any saves and deletes, load(id) returns the content of the
\* last save with that id, or nothing when it was deleted since (records
\* saved under other ids do not change it), and list_scans has at most one
\* entry per scan_id.
C25_LoadReturnsTheLastSave ==
    /\ stOut.op = "load" =>
          stOut.result = Return(stSaved[stOut.scan_id])
    /\ stOut.op = "list_scans" =>
          \A i, j \in DOMAIN stOut.result.value :
              stOut.result.value[i].scan_id = stOut.result.value[j].scan_id
                  => i = j


----------------------------------------------------------------------------
(* Persistence of a scan *)

\* C28: with a storage backend configured, analyze calls storage.save at most
\* once per scan, the record it passes is in its final state (Completed or
\* Failed, with end_time set), and no record is saved twice with different
\* statuses.
C28_SavedOnceInFinalState ==
    /\ Len(saves) <= 1
    /\ \A i \in DOMAIN saves :
          /\ saves[i].status \in {"completed", "failed"}
          /\ saves[i].end_time # NoTime
    /\ \A i, j \in DOMAIN saves : saves[i].status = saves[j].status


----------------------------------------------------------------------------
(* Scoring of severities outside high, medium, info *)

\* the weight of a severity, 1 for a label that is none of the three
WeightOrOne(severity) ==
    IF severity \in KnownSeverities THEN ClaimedWeight(severity) ELSE 1

RECURSIVE TotalWithDefault(_)
TotalWithDefault(matches) ==
    IF matches = <<>> THEN 0
    ELSE WeightOrOne(Head(matches).severity) * Head(matches).count
            + TotalWithDefault(Tail(matches))

\* C29: get_security_score is total over the severity labels: a match whose
\* severity is none of high, medium, info counts with weight 1, and the call
\* returns a score without raising.
C29_UnknownSeverityScoresWithWeightOne ==
    scoreResult.outcome \in {"return", "raise"} =>
        /\ scoreResult.outcome = "return"
        /\ scoreResult.value.total_score = TotalWithDefault(scoreMatches)


----------------------------------------------------------------------------
(* Concurrent analyze calls *)

\* what a scan of the target can put into the consolidated subdomains
SubdomainsOf(target) == {JoinDot("www", target), JoinDot("api", target)}

\* C26: concurrent analyze calls on one SiteAnalyzer each own their
\* ScanResults: under every interleaving the record a call returns holds only
\* outcomes that the call's own enumerator invocations produced for the
\* call's target, and its consolidated fields hold nothing that was gathered
\* for the target of another call.
C26_CallsDoNotShareResults ==
    \A c \in DOMAIN ccPc :
        ccPc[c] = "returned" =>
            /\ ccReturned[c].scan_id = uuid4(c)
            /\ ccReturned[c].target = ccTarget[c]
            /\ ccReturned[c].enumeration_results = ccOwn[c]
            /\ \A i \in DOMAIN ccReturned[c].enumeration_results :
                  ccReturned[c].enumeration_results[i].target = ccTarget[c]
            /\ ccReturned[c].subdomains \subseteq SubdomainsOf(ccTarget[c])
            /\ ccReturned[c] \in ccStore

\* two calls for different targets ran at the same time and both returned a
\* record with an outcome of each strategy and a subdomain of its own target
C26_Witness ==
    /\ DOMAIN ccPc # {}
    /\ \E c, d \in DOMAIN ccPc :
          /\ ccTarget[c] # ccTarget[d]
          /\ {c, d} \subseteq ccOverlap
          /\ ccPc[c] = "returned" /\ ccPc[d] = "returned"
          /\ ccReturned[c].subdomains # {}
          /\ ccReturned[d].subdomains # {}
          /\ Len(ccReturned[c].enumeration_results) = 2
          /\ Len(ccReturned[d].enumeration_results) = 2


----------------------------------------------------------------------------
(* Navigation sessions *)

\* C30: in every NavigationResult that navigate_with_prompt returns the
\* step_number values are pairwise distinct and strictly increasing in list
\* order, also when error steps or captcha-failure steps are recorded between
\* screenshot steps.
C30_StepNumbersStrictlyIncrease ==
    navResult.outcome = "return" =>
        \A i, j \in DOMAIN navResult.value.steps :
            i < j => navResult.value.steps[i].step_number
                        < navResult.value.steps[j].step_number

====
